---------------------------- MODULE Spec2Model ----------------------------
(***************************************************************************)
(* A model of the ask-rockdale acquisition pipeline.                       *)
(*                                                                         *)
(*   Spec       src/scraper.py: one run of the scraper's entry point       *)
(*              (__main__): scrape_known_chapters over the known chapters  *)
(*              and the discovered candidates, persistence, cleanup.       *)
(*   FairSpec   Spec with weak fairness of the program's steps (the        *)
(*              interpreter keeps running a program that can take a step). *)
(*   SpecDedup  src/start2.py: AdvancedDocumentProcessor.deduplicate_chunks*)
(*              run over a passage sequence, then over its own output.     *)
(*   SpecChunk  src/start2.py: create_enhanced_chunks over a list of       *)
(*              documents, one strategy at a time.                         *)
(*   SpecLoad   src/start2.py: load_documents over the files of a folder.  *)
(*   SpecWait, FairSpecWait  src/scraper.py: wait_for_content_load.        *)
(*   SpecExtract  src/scraper.py: extract_content_from_page on a loaded    *)
(*              page.                                                      *)
(*   SpecDiscover  src/scraper.py: calls of discover_additional_sections.  *)
(*   SpecRerun  src/scraper.py: scrape_known_chapters called again on the  *)
(*              same scraper.                                              *)
(*   SpecUpload, FairSpecUpload  src/start2.py: upload_with_progress and   *)
(*              the part of main that follows it.                          *)
(*                                                                         *)
(* Texts that the code inspects character by character are sequences of    *)
(* one-character strings; labels that the code matches with a regular      *)
(* expression are sequences of tokens.                                     *)
(***************************************************************************)
EXTENDS Naturals, Integers, Sequences, FiniteSets, TLC

VARIABLES
    \* ---- src/scraper.py: RockdaleMunicodeScraper fields
    driver,                 \* self.driver: "None" or "Chrome"
    ordinances,             \* self.ordinances
    failed_urls,            \* self.failed_urls
    retry_count,            \* self.retry_count
    delay_between_requests, \* self.delay_between_requests
    known_chapters,         \* self.known_chapters
    \* ---- locals of scrape_known_chapters and of __main__
    pc,                     \* position of the entry point
    all_urls_to_scrape,     \* the target list built by scrape_known_chapters
    i,                      \* 1-based index of the loop over all_urls_to_scrape
    content_data,           \* result of extract_content_from_page: None or Some(dict)
    page_outcome,           \* what loading and extracting the last page came to
    returned,               \* return value of scrape_known_chapters: None or Some(list)
    ending,                 \* how the try statement of __main__ was left
    raised_in,              \* position at which the exception or interrupt was raised
    \* ---- the environment
    browser,                \* the browser process: "absent", "running", "quit"
    files,                  \* the three output files of scraped_data/
    events,                 \* history of the calls made to the environment
    \* ---- src/start2.py: deduplicate_chunks
    dpc,                    \* position of the deduplication run
    chunks,                 \* argument of the current deduplicate_chunks call
    idx,                    \* 1-based index of the loop over chunks
    unique_chunks,          \* local unique_chunks
    seen_content,           \* local seen_content
    dedup_input,            \* the argument of the first call
    dedup_once,             \* None, or Some(result of the first call)
    \* ---- src/start2.py: create_enhanced_chunks
    cpc,                    \* position of the chunking run
    documents,              \* argument documents
    doc_i,                  \* 1-based index of the loop over documents
    all_enhanced_chunks,    \* local all_enhanced_chunks
    \* ---- src/start2.py: load_documents
    lpc,                    \* position of the loading run
    listing,                \* os.listdir(data_folder), in enumeration order
    file_paths,             \* local file_paths
    file_i,                 \* 1-based index of the loop over file_paths
    all_documents,          \* local all_documents
    load_log,               \* history: per file tried, what its loader did
    \* ---- src/scraper.py: extract_content_from_page and
    \* ---- wait_for_content_load, for one page
    wpc,                    \* position within extract_content_from_page
    indicator,              \* 1-based index of the loop over content_indicators
    polls,                  \* polls of the current WebDriverWait that found nothing
    wait_log,               \* history: the waits made and how each ended
    wait_result,            \* None, or Some(return value of wait_for_content_load)
    sleeps,                 \* history: the time.sleep calls made after the wait
    page_result,            \* None, or Some(what extract_content_from_page returned)
    \* ---- src/scraper.py: the extraction of lines 154-177, for one page
    epc,                    \* position within the extraction
    page_source,            \* the tree BeautifulSoup made of driver.page_source
    page_soup,              \* local soup: the tree as the extractors have left it
    page_url,               \* argument url
    page_title,             \* None, or Some(local title)
    page_text,              \* None, or Some(local content)
    page_sections,          \* None, or Some(local sections)
    page_node_id,           \* None, or Some(local node_id)
    \* ---- src/scraper.py: calls of the scraper's methods by a caller
    discover_log,           \* history: the discover_additional_sections calls made
    run_results,            \* what the earlier scrape_known_chapters calls returned
    \* ---- src/start2.py: upload_with_progress and the end of main
    upc,                    \* position within upload_with_progress and main
    upload_chunks,          \* argument chunks
    batch_size,             \* argument batch_size
    table,                  \* the rows of the documents table of the store
    successful_uploads,     \* local successful_uploads
    upload_i,               \* local i: 0-based offset of the batch of the loop
    upload_log,             \* history of the calls made to the store and to sleep
    uploaded_count          \* None, or Some(uploaded_count of main)

scraper_vars == <<driver, ordinances, failed_urls, retry_count,
                  delay_between_requests, known_chapters, pc,
                  all_urls_to_scrape, i, content_data, page_outcome, returned, ending,
                  raised_in, browser, files, events>>
dedup_vars == <<dpc, chunks, idx, unique_chunks, seen_content, dedup_input,
                dedup_once>>
chunk_vars == <<cpc, documents, doc_i, all_enhanced_chunks>>
load_vars == <<lpc, listing, file_paths, file_i, all_documents, load_log>>
wait_vars == <<wpc, indicator, polls, wait_log, wait_result, sleeps,
               page_result>>
extract_vars == <<epc, page_source, page_soup, page_url, page_title, page_text,
                  page_sections, page_node_id>>
caller_vars == <<discover_log, run_results>>
upload_vars == <<upc, upload_chunks, batch_size, table, successful_uploads,
                 upload_i, upload_log, uploaded_count>>
vars == <<scraper_vars, dedup_vars, chunk_vars, load_vars, wait_vars,
          extract_vars, caller_vars, upload_vars>>

\* what the steps of one part leave alone: the variables of the other parts
other_than_scraper == <<dedup_vars, chunk_vars, load_vars, wait_vars,
                        extract_vars, caller_vars, upload_vars>>
other_than_dedup == <<scraper_vars, chunk_vars, load_vars, wait_vars,
                      extract_vars, caller_vars, upload_vars>>
other_than_chunk == <<scraper_vars, dedup_vars, load_vars, wait_vars,
                      extract_vars, caller_vars, upload_vars>>
other_than_load == <<scraper_vars, dedup_vars, chunk_vars, wait_vars,
                     extract_vars, caller_vars, upload_vars>>
other_than_wait == <<scraper_vars, dedup_vars, chunk_vars, load_vars,
                     extract_vars, caller_vars, upload_vars>>
other_than_extract == <<scraper_vars, dedup_vars, chunk_vars, load_vars,
                        wait_vars, caller_vars, upload_vars>>
other_than_caller == <<scraper_vars, dedup_vars, chunk_vars, load_vars,
                       wait_vars, extract_vars, upload_vars>>
other_than_upload == <<scraper_vars, dedup_vars, chunk_vars, load_vars,
                       wait_vars, extract_vars, caller_vars>>

\* create_enhanced_chunks does not run
IdleChunk ==
    /\ cpc = "idle"
    /\ documents = <<>>
    /\ doc_i = 1
    /\ all_enhanced_chunks = <<>>

\* load_documents does not run
IdleLoad ==
    /\ lpc = "idle"
    /\ listing = <<>>
    /\ file_paths = <<>>
    /\ file_i = 1
    /\ all_documents = <<>>
    /\ load_log = <<>>

\* no page is being loaded step by step
IdleWait ==
    /\ wpc = "idle"
    /\ indicator = 1
    /\ polls = 0
    /\ wait_log = <<>>
    /\ wait_result = <<>>
    /\ sleeps = <<>>
    /\ page_result = <<>>

\* no caller has called discover_additional_sections, and none has called
\* scrape_known_chapters a second time
IdleCaller ==
    /\ discover_log = <<>>
    /\ run_results = <<>>

\* upload_with_progress does not run
IdleUpload ==
    /\ upc = "idle"
    /\ upload_chunks = <<>>
    /\ batch_size = 1
    /\ table = <<>>
    /\ successful_uploads = 0
    /\ upload_i = 0
    /\ upload_log = <<>>
    /\ uploaded_count = <<>>

\* no page is being extracted from step by step
IdleExtract ==
    /\ epc = "idle"
    /\ page_source = <<>>
    /\ page_soup = <<>>
    /\ page_url = <<>>
    /\ page_title = <<>>
    /\ page_text = <<>>
    /\ page_sections = <<>>
    /\ page_node_id = <<>>

-----------------------------------------------------------------------------
(* Bounds of the model *)

\* number of entries of known_chapters a run is configured with
MaxChapters == 2
\* number of suffixes of common_suffixes the run probes per chapter
MaxDiscovered == 1
\* largest configured retry_count
MaxRetryCount == 3
\* longest passage sequence handed to deduplicate_chunks
MaxChunks == 3
\* number of entries of important_keywords a chunking run goes through
MaxKeywords == 5
\* longest document list handed to create_enhanced_chunks
MaxDocs == 2
\* largest number of entries of the data folder
MaxFiles == 2
\* polls one WebDriverWait makes before its timeout has passed
MaxPolls == 2
\* number of discover_additional_sections calls a caller makes
MaxCalls == 2
\* number of scrape_known_chapters calls a caller makes on one scraper
MaxRuns == 2
\* longest chunk list handed to upload_with_progress
MaxUploadChunks == 5
\* largest batch_size upload_with_progress is called with
MaxBatchSize == 2

-----------------------------------------------------------------------------
(* Helpers *)

None == <<>>
Some(x) == <<x>>
IsNone(o) == o = <<>>
Get(o) == o[1]

Last(s) == s[Len(s)]
Min(a, b) == IF a <= b THEN a ELSE b

RECURSIVE Concat(_)
\* the concatenation of a sequence of sequences
Concat(ss) == IF ss = <<>> THEN <<>> ELSE Head(ss) \o Concat(Tail(ss))

-----------------------------------------------------------------------------
(* src/scraper.py: configuration *)

base_url == "https://library.municode.com/ga/rockdale_county/codes/code_of_ordinances"

\* labels are token sequences: words, blanks, digit groups, punctuation
default_known_chapters == <<
    <<"SPAGEOR_CH18AN",
      <<"Chapter", " ", "18", " ", "-", " ", "ANIMALS">> >>,
    <<"SPAGEOR_CH42EN",
      <<"Chapter", " ", "42", " ", "-", " ", "ENVIRONMENT">> >>,
    <<"SPBPLDE_TIT2LAUSZO_CH222OREPAST",
      <<"Chapter", " ", "222", " ", "-", " ", "OFF-STREET", " ", "PARKING",
        " ", "STANDARDS">> >>,
    <<"SPBPLDE_TIT1AD",
      <<"TITLE", " ", "1", " ", "-", " ", "ADMINISTRATION">> >>,
    <<"SPBPLDE_TIT2LAUSZO_CH218USRE",
      <<"Chapter", " ", "218", " ", "-", " ", "USE", " ", "REGULATIONS">> >>,
    <<"SPBPLDE_TIT2LAUSZO_CH206BAZODI",
      <<"Chapter", " ", "206", " ", "-", " ", "BASE", " ", "ZONING", " ",
        "DISTRICTS">> >>,
    <<"PTIRELA",
      <<"PART", " ", "I", " ", "-", " ", "RELATED", " ", "LAWS">> >> >>

common_suffixes == <<"_S1", "_S2", "_S3", "_S4", "_S5",
                     "_ART1", "_ART2", "_ART3",
                     "_ARTII", "_ARTIII", "_ARTIV",
                     "_DE", "_GE", "_PE", "_VI">>

\* a catalog that lists a chapter and, as an entry of its own, the first
\* section of that chapter (known_chapters is a plain attribute: a caller
\* may assign it before scrape_known_chapters runs)
overlapping_known_chapters == <<
    <<"SPAGEOR_CH18AN",
      <<"Chapter", " ", "18", " ", "-", " ", "ANIMALS">> >>,
    <<"SPAGEOR_CH18AN_S1",
      <<"Chapter", " ", "18", " ", "-", " ", "ANIMALS", " ", "-", " ",
        "Section", " ", "1">> >> >>

\* the catalogs a scraper may be configured with: a prefix of the built-in
\* catalog, or the overlapping one
Catalogs == {SubSeq(default_known_chapters, 1, n) :
                n \in 1..Min(MaxChapters, Len(default_known_chapters))}
            \cup {overlapping_known_chapters}

RetryCounts == 0..MaxRetryCount

\* f"{self.base_url}?nodeId={node_id}": a URL is its path and its query
\* string, the query string a sequence of <<key, value>> pairs
MakeUrl(node_id) == [path |-> base_url, query |-> << <<"nodeId", node_id>> >>]


\* extract_node_id: parse_qs(urlparse(url).query).get('nodeId', [''])[0]
extract_node_id(url) ==
    LET hits == {k \in 1..Len(url.query) : url.query[k][1] = "nodeId"}
    IN  IF hits = {} THEN ""
        ELSE url.query[CHOOSE k \in hits : \A m \in hits : k <= m][2]

\* a variant of line 322 that leaves the suffix out of the candidate id
discover_additional_sections_DropsSuffix(base_node_id) ==
    [k \in 1..Len(common_suffixes) |-> MakeUrl(base_node_id)]

\* discover_additional_sections: one candidate URL per suffix, in list order
discover_additional_sections(base_node_id) ==
    [k \in 1..Len(common_suffixes) |->
        MakeUrl(base_node_id \o common_suffixes[k])]

\* the candidates of a chapter that the bounded run probes
Probed(discovered) == SubSeq(discovered, 1, Min(MaxDiscovered, Len(discovered)))

\* the digit groups that occur in labels
DigitTokens == {"1", "18", "42", "206", "218", "222"}
BlankTokens == {" "}

\* re.search(word + r'\s+(\d+)', chapter_name): the digit group of the
\* leftmost match, or None
SearchNumber(word, chapter_name) ==
    LET hits == {k \in 1..Len(chapter_name) :
                    /\ chapter_name[k] = word
                    /\ k + 2 <= Len(chapter_name)
                    /\ chapter_name[k + 1] \in BlankTokens
                    /\ chapter_name[k + 2] \in DigitTokens}
    IN  IF hits = {} THEN None
        ELSE Some(chapter_name[(CHOOSE k \in hits : \A m \in hits : k <= m) + 2])

\* a variant of lines 384-390 that looks for "TITLE <n>" first
extract_chapter_number_TitleFirst(chapter_name) ==
    IF ~IsNone(SearchNumber("TITLE", chapter_name))
    THEN Some("T" \o Get(SearchNumber("TITLE", chapter_name)))
    ELSE IF ~IsNone(SearchNumber("Chapter", chapter_name))
    THEN Some(Get(SearchNumber("Chapter", chapter_name)))
    ELSE None

\* extract_chapter_number: "<n>" for "Chapter <n>", "T<n>" for "TITLE <n>"
extract_chapter_number(chapter_name) ==
    IF ~IsNone(SearchNumber("Chapter", chapter_name))
    THEN Some(Get(SearchNumber("Chapter", chapter_name)))
    ELSE IF ~IsNone(SearchNumber("TITLE", chapter_name))
    THEN Some("T" \o Get(SearchNumber("TITLE", chapter_name)))
    ELSE None

\* the list built by lines 333-344: per chapter its own URL, then the
\* discovered candidates labelled "<chapter> - Related"
ChapterTargets(entry) ==
    LET node_id == entry[1]
        chapter_name == entry[2]
        discovered == Probed(discover_additional_sections(node_id))
    IN  << [url |-> MakeUrl(node_id), chapter_name |-> chapter_name,
            node_id |-> node_id] >>
        \o [k \in 1..Len(discovered) |->
              [url |-> discovered[k],
               chapter_name |-> chapter_name \o <<" ", "-", " ", "Related">>,
               node_id |-> extract_node_id(discovered[k])]]

BuildTargets(catalog) ==
    Concat([k \in 1..Len(catalog) |-> ChapterTargets(catalog[k])])

\* what loading and extracting one page can come to
PageOutcomes == {"raises", "empty", "content"}

\* extract_content_from_page: the dict, or None when anything raised
extract_content_from_page(url, outcome) ==
    IF outcome = "raises" THEN None
    ELSE Some([title |-> "Unknown Title",
               content |-> IF outcome = "empty" THEN "" ELSE "text",
               sections |-> None,
               node_id |-> extract_node_id(url),
               url |-> url])

\* a variant of line 354 that tests only content_data
HasContent_IgnoresEmptyContent(data) == ~IsNone(data)

\* line 354: content_data and content_data['content']
HasContent(data) == ~IsNone(data) /\ Get(data).content # ""

\* lines 358-368
OrdinanceSection(target, data) ==
    [chapter |-> target.chapter_name,
     chapter_number |-> extract_chapter_number(target.chapter_name),
     section_id |-> target.node_id,
     title |-> data.title,
     content |-> data.content,
     url |-> target.url,
     node_id |-> target.node_id,
     subsections |-> data.sections,
     municipality |-> "Rockdale County",
     scraped_at |-> "now"]

-----------------------------------------------------------------------------
(* src/scraper.py: the persisted outputs *)

\* json.dump([asdict(ord) for ord in self.ordinances])
JsonDump(ords) == [kind |-> "json", records |-> ords]

CsvRow(ord) == <<ord.chapter, ord.chapter_number, ord.section_id, ord.title,
                 ord.content, ord.url, ord.node_id, ord.municipality,
                 ord.scraped_at>>

CsvDump(ords) ==
    [kind |-> "csv",
     header |-> <<"Chapter", "Chapter Number", "Section ID", "Title",
                  "Content", "URL", "Node ID", "Municipality", "Scraped At">>,
     rows |-> [k \in 1..Len(ords) |-> CsvRow(ords[k])]]

RECURSIVE ChapterCounts(_)
\* lines 447-451: the sections per chapter label, labels in first-seen order
ChapterCounts(ords) ==
    IF ords = <<>> THEN <<>>
    ELSE LET before == ChapterCounts(SubSeq(ords, 1, Len(ords) - 1))
             label == Last(ords).chapter
         IN  IF \E k \in 1..Len(before) : before[k][1] = label
             THEN [k \in 1..Len(before) |->
                     IF before[k][1] = label
                     THEN <<label, before[k][2] + 1>> ELSE before[k]]
             ELSE Append(before, <<label, 1>>)

\* a variant of save_summary_report without lines 464-468
SummaryReport_OmitsFailedUrls(ords, failed) ==
    [kind |-> "summary",
     total |-> Len(ords),
     failed_count |-> Len(failed),
     chapters |-> ChapterCounts(ords),
     sample |-> IF ords = <<>> THEN None ELSE Some(ords[1]),
     failed_urls |-> <<>>]

SummaryReport(ords, failed) ==
    [kind |-> "summary",
     total |-> Len(ords),
     failed_count |-> Len(failed),
     chapters |-> ChapterCounts(ords),
     sample |-> IF ords = <<>> THEN None ELSE Some(ords[1]),
     failed_urls |-> failed]

-----------------------------------------------------------------------------
(* src/scraper.py: the run of the entry point *)

\* the positions inside the try statement of __main__ (lines 484-516)
LoopPcs == {"loop", "fetching", "branch", "sleeping"}
PersistPcs == {"save_to_json", "save_to_csv", "save_summary_report"}
TryPcs == {"scrape_known_chapters"} \cup LoopPcs \cup PersistPcs
            \cup {"print_summary"}

NoFiles == [json |-> None, csv |-> None, summary |-> None]

Log(e) == events' = Append(events, e)

\* the state after RockdaleMunicodeScraper() (lines 53-74); retry_count and
\* known_chapters are attributes a caller may set: they are drawn here
InitScraper ==
    /\ driver = "None"
    /\ ordinances = <<>>
    /\ failed_urls = <<>>
    /\ retry_count \in RetryCounts
    /\ delay_between_requests = 3
    /\ known_chapters \in Catalogs
    /\ pc = "main"
    /\ all_urls_to_scrape = <<>>
    /\ i = 1
    /\ content_data = None
    /\ page_outcome = "none"
    /\ returned = None
    /\ ending = "running"
    /\ raised_in = "nowhere"
    /\ browser = "absent"
    /\ files = NoFiles
    /\ events = <<>>

\* line 482: scraper.delay_between_requests = 4
MainConfigure ==
    /\ pc = "main"
    /\ delay_between_requests' = 4
    /\ pc' = "scrape_known_chapters"
    /\ UNCHANGED <<driver, ordinances, failed_urls, retry_count,
                   known_chapters, all_urls_to_scrape, i, content_data, page_outcome,
                   returned, ending, raised_in, browser, files, events>>
    /\ UNCHANGED other_than_scraper

\* what setup_driver can come to: the driver is up; creating the driver
\* raised (lines 98-99); a call on the created driver raised (lines 100-103)
SetupOutcomes == {"ok", "no_driver", "driver_then_error"}

\* a variant of setup_driver that reports success once a driver exists
SetupReturns_TrueOnceDriverExists(outcome) == outcome # "no_driver"

\* setup_driver (lines 76-110): returns True only when nothing raised
SetupReturns(outcome) == outcome = "ok"

\* a variant of lines 329-346 that starts every run with empty lists
ScrapeEnter_ResetsLists(outcome) ==
    /\ pc = "scrape_known_chapters"
    /\ ordinances' = <<>>
    /\ failed_urls' = <<>>
    /\ IF driver = "None"
       THEN /\ driver' = IF outcome = "no_driver" THEN "None" ELSE "Chrome"
            /\ browser' = IF outcome = "no_driver" THEN browser ELSE "running"
            /\ Log([ev |-> "setup_driver", outcome |-> outcome])
            /\ IF SetupReturns(outcome)
               THEN /\ all_urls_to_scrape' = BuildTargets(known_chapters)
                    /\ i' = 1
                    /\ pc' = "loop"
                    /\ UNCHANGED returned
               ELSE /\ returned' = Some(<<>>)
                    /\ pc' = "save_to_json"
                    /\ UNCHANGED <<all_urls_to_scrape, i>>
       ELSE /\ all_urls_to_scrape' = BuildTargets(known_chapters)
            /\ i' = 1
            /\ pc' = "loop"
            /\ UNCHANGED <<driver, browser, events, returned>>
    /\ UNCHANGED <<retry_count, delay_between_requests, known_chapters,
                   content_data, page_outcome, ending, raised_in, files>>
    /\ UNCHANGED other_than_scraper

\* lines 329-346: set the driver up when there is none, give up when that
\* fails, else build the target list
ScrapeEnter(outcome) ==
    /\ pc = "scrape_known_chapters"
    /\ IF driver = "None"
       THEN /\ driver' = IF outcome = "no_driver" THEN "None" ELSE "Chrome"
            /\ browser' = IF outcome = "no_driver" THEN browser ELSE "running"
            /\ Log([ev |-> "setup_driver", outcome |-> outcome])
            /\ IF SetupReturns(outcome)
               THEN /\ all_urls_to_scrape' = BuildTargets(known_chapters)
                    /\ i' = 1
                    /\ pc' = "loop"
                    /\ UNCHANGED returned
               ELSE /\ returned' = Some(<<>>)
                    /\ pc' = "save_to_json"
                    /\ UNCHANGED <<all_urls_to_scrape, i>>
       ELSE /\ all_urls_to_scrape' = BuildTargets(known_chapters)
            /\ i' = 1
            /\ pc' = "loop"
            /\ UNCHANGED <<driver, browser, events, returned>>
    /\ UNCHANGED <<ordinances, failed_urls, retry_count,
                   delay_between_requests, known_chapters, content_data, page_outcome,
                   ending, raised_in, files>>
    /\ UNCHANGED other_than_scraper

\* line 352, the call: self.driver.get(url) is under way
FetchBegin ==
    /\ pc = "loop"
    /\ i <= Len(all_urls_to_scrape)
    /\ Log([ev |-> "get", url |-> all_urls_to_scrape[i].url])
    /\ pc' = "fetching"
    /\ UNCHANGED <<driver, ordinances, failed_urls, retry_count,
                   delay_between_requests, known_chapters,
                   all_urls_to_scrape, i, content_data, page_outcome, returned, ending,
                   raised_in, browser, files>>
    /\ UNCHANGED other_than_scraper

\* a variant of extract_content_from_page without the except clause of
\* lines 179-181: what the page raises leaves scrape_known_chapters
FetchEnd_Propagates(outcome) ==
    /\ pc = "fetching"
    /\ Log([ev |-> "got", url |-> all_urls_to_scrape[i].url,
             ok |-> outcome = "content"])
    /\ IF outcome = "raises"
       THEN /\ ending' = "Exception"
            /\ raised_in' = pc
            /\ pc' = "finally"
            /\ UNCHANGED <<content_data, page_outcome>>
       ELSE /\ content_data' =
                 extract_content_from_page(all_urls_to_scrape[i].url, outcome)
            /\ page_outcome' = outcome
            /\ pc' = "branch"
            /\ UNCHANGED <<ending, raised_in>>
    /\ UNCHANGED <<driver, ordinances, failed_urls, retry_count,
                   delay_between_requests, known_chapters,
                   all_urls_to_scrape, i, returned, browser, files>>
    /\ UNCHANGED other_than_scraper

\* line 352, the return of extract_content_from_page (lines 142-181)
FetchEnd(outcome) ==
    /\ pc = "fetching"
    /\ content_data' =
          extract_content_from_page(all_urls_to_scrape[i].url, outcome)
    /\ page_outcome' = outcome
    /\ Log([ev |-> "got", url |-> all_urls_to_scrape[i].url,
             ok |-> outcome = "content"])
    /\ pc' = "branch"
    /\ UNCHANGED <<driver, ordinances, failed_urls, retry_count,
                   delay_between_requests, known_chapters,
                   all_urls_to_scrape, i, returned, ending, raised_in,
                   browser, files>>
    /\ UNCHANGED other_than_scraper

\* a variant of lines 372-377 in which the failure branch ends with
\* "continue": no pause follows a failed fetch
RecordResult_NoPauseAfterFailure ==
    /\ pc = "branch"
    /\ IF HasContent(content_data)
       THEN /\ ordinances' = Append(ordinances,
                 OrdinanceSection(all_urls_to_scrape[i], Get(content_data)))
            /\ Log([ev |-> "sleep", secs |-> delay_between_requests])
            /\ pc' = "sleeping"
            /\ UNCHANGED <<failed_urls, i>>
       ELSE /\ failed_urls' = Append(failed_urls, all_urls_to_scrape[i].url)
            /\ i' = i + 1
            /\ pc' = "loop"
            /\ UNCHANGED <<ordinances, events>>
    /\ UNCHANGED <<driver, retry_count, delay_between_requests,
                   known_chapters, all_urls_to_scrape, content_data, page_outcome,
                   returned, ending, raised_in, browser, files>>
    /\ UNCHANGED other_than_scraper

\* lines 354-377: a record or a failure, then time.sleep begins
RecordResult ==
    /\ pc = "branch"
    /\ IF HasContent(content_data)
       THEN /\ ordinances' = Append(ordinances,
                 OrdinanceSection(all_urls_to_scrape[i], Get(content_data)))
            /\ UNCHANGED failed_urls
       ELSE /\ failed_urls' = Append(failed_urls, all_urls_to_scrape[i].url)
            /\ UNCHANGED ordinances
    /\ Log([ev |-> "sleep", secs |-> delay_between_requests])
    /\ pc' = "sleeping"
    /\ UNCHANGED <<driver, retry_count, delay_between_requests,
                   known_chapters, all_urls_to_scrape, i, content_data, page_outcome,
                   returned, ending, raised_in, browser, files>>
    /\ UNCHANGED other_than_scraper

\* the number of driver.get calls made for the URL
Attempts(url) ==
    Cardinality({k \in 1..Len(events) :
                    events[k].ev = "get" /\ events[k].url = url})

\* a variant of the loop that wires retry_count in: a failed target is
\* fetched again until retry_count retries are spent
SleepEnd_RetriesFailed ==
    /\ pc = "sleeping"
    /\ Log([ev |-> "woke"])
    /\ i' = IF /\ ~HasContent(content_data)
               /\ Attempts(all_urls_to_scrape[i].url) <= retry_count
            THEN i ELSE i + 1
    /\ pc' = "loop"
    /\ UNCHANGED <<driver, ordinances, failed_urls, retry_count,
                   delay_between_requests, known_chapters,
                   all_urls_to_scrape, content_data, page_outcome, returned, ending,
                   raised_in, browser, files>>
    /\ UNCHANGED other_than_scraper

\* line 377 returns; the for statement takes the next target
SleepEnd ==
    /\ pc = "sleeping"
    /\ Log([ev |-> "woke"])
    /\ i' = i + 1
    /\ pc' = "loop"
    /\ UNCHANGED <<driver, ordinances, failed_urls, retry_count,
                   delay_between_requests, known_chapters,
                   all_urls_to_scrape, content_data, page_outcome, returned, ending,
                   raised_in, browser, files>>
    /\ UNCHANGED other_than_scraper

\* lines 379-380: return self.ordinances
ScrapeReturn ==
    /\ pc = "loop"
    /\ i > Len(all_urls_to_scrape)
    /\ returned' = Some(ordinances)
    /\ pc' = "save_to_json"
    /\ UNCHANGED <<driver, ordinances, failed_urls, retry_count,
                   delay_between_requests, known_chapters,
                   all_urls_to_scrape, i, content_data, page_outcome, ending, raised_in,
                   browser, files, events>>
    /\ UNCHANGED other_than_scraper

\* an exception out of a statement of the try block: lines 519-522
Raise(what) ==
    /\ ending' = what
    /\ raised_in' = pc
    /\ pc' = "finally"

\* save_to_json (lines 394-404); open() may raise OSError
save_to_json(ok) ==
    /\ pc = "save_to_json"
    /\ IF ok
       THEN /\ files' = [files EXCEPT !.json = Some(JsonDump(ordinances))]
            /\ Log([ev |-> "write", file |-> "json"])
            /\ pc' = "save_to_csv"
            /\ UNCHANGED <<ending, raised_in>>
       ELSE /\ Raise("Exception")
            /\ UNCHANGED <<files, events>>
    /\ UNCHANGED <<driver, ordinances, failed_urls, retry_count,
                   delay_between_requests, known_chapters,
                   all_urls_to_scrape, i, content_data, page_outcome, returned, browser>>
    /\ UNCHANGED other_than_scraper

\* save_to_csv (lines 406-430): nothing is written without a record
save_to_csv(ok) ==
    /\ pc = "save_to_csv"
    /\ IF ordinances = <<>>
       THEN /\ pc' = "save_summary_report"
            /\ UNCHANGED <<files, events, ending, raised_in>>
       ELSE IF ok
       THEN /\ files' = [files EXCEPT !.csv = Some(CsvDump(ordinances))]
            /\ Log([ev |-> "write", file |-> "csv"])
            /\ pc' = "save_summary_report"
            /\ UNCHANGED <<ending, raised_in>>
       ELSE /\ Raise("Exception")
            /\ UNCHANGED <<files, events>>
    /\ UNCHANGED <<driver, ordinances, failed_urls, retry_count,
                   delay_between_requests, known_chapters,
                   all_urls_to_scrape, i, content_data, page_outcome, returned, browser>>
    /\ UNCHANGED other_than_scraper

\* save_summary_report (lines 432-470)
save_summary_report(ok) ==
    /\ pc = "save_summary_report"
    /\ IF ok
       THEN /\ files' = [files EXCEPT
                 !.summary = Some(SummaryReport(ordinances, failed_urls))]
            /\ Log([ev |-> "write", file |-> "summary"])
            /\ pc' = "print_summary"
            /\ UNCHANGED <<ending, raised_in>>
       ELSE /\ Raise("Exception")
            /\ UNCHANGED <<files, events>>
    /\ UNCHANGED <<driver, ordinances, failed_urls, retry_count,
                   delay_between_requests, known_chapters,
                   all_urls_to_scrape, i, content_data, page_outcome, returned, browser>>
    /\ UNCHANGED other_than_scraper

\* lines 493-515: the printed summary ends the try block
PrintSummary ==
    /\ pc = "print_summary"
    /\ ending' = "completed"
    /\ pc' = "finally"
    /\ UNCHANGED <<driver, ordinances, failed_urls, retry_count,
                   delay_between_requests, known_chapters,
                   all_urls_to_scrape, i, content_data, page_outcome, returned, raised_in,
                   browser, files, events>>
    /\ UNCHANGED other_than_scraper

\* Ctrl-C while a statement of the try block runs: lines 517-518
KeyboardInterrupt ==
    /\ pc \in TryPcs
    /\ Raise("KeyboardInterrupt")
    /\ UNCHANGED <<driver, ordinances, failed_urls, retry_count,
                   delay_between_requests, known_chapters,
                   all_urls_to_scrape, i, content_data, page_outcome, returned, browser,
                   files, events>>
    /\ UNCHANGED other_than_scraper

\* a variant of cleanup that drops the driver without quitting it
cleanup_LeavesBrowser ==
    /\ pc = "finally"
    /\ Log([ev |-> "cleanup"])
    /\ pc' = "exit"
    /\ UNCHANGED <<driver, ordinances, failed_urls, retry_count,
                   delay_between_requests, known_chapters,
                   all_urls_to_scrape, i, content_data, page_outcome, returned, ending,
                   raised_in, browser, files>>
    /\ UNCHANGED other_than_scraper

\* cleanup (lines 472-476), called by the finally clause (lines 523-524)
cleanup ==
    /\ pc = "finally"
    /\ IF driver # "None"
       THEN /\ browser' = "quit"
            /\ events' = events \o <<[ev |-> "cleanup"], [ev |-> "quit"]>>
       ELSE /\ UNCHANGED browser
            /\ Log([ev |-> "cleanup"])
    /\ pc' = "exit"
    /\ UNCHANGED <<driver, ordinances, failed_urls, retry_count,
                   delay_between_requests, known_chapters,
                   all_urls_to_scrape, i, content_data, page_outcome, returned, ending,
                   raised_in, files>>
    /\ UNCHANGED other_than_scraper

Next ==
    \/ MainConfigure
    \/ \E outcome \in SetupOutcomes : ScrapeEnter(outcome)
    \/ FetchBegin
    \/ \E outcome \in PageOutcomes : FetchEnd(outcome)
    \/ RecordResult
    \/ SleepEnd
    \/ ScrapeReturn
    \/ \E ok \in BOOLEAN : save_to_json(ok)
    \/ \E ok \in BOOLEAN : save_to_csv(ok)
    \/ \E ok \in BOOLEAN : save_summary_report(ok)
    \/ PrintSummary
    \/ KeyboardInterrupt
    \/ cleanup

\* the deduplication run does not start in a run of the scraper
IdleDedup ==
    /\ dpc = "idle"
    /\ chunks = <<>>
    /\ idx = 1
    /\ unique_chunks = <<>>
    /\ seen_content = {}
    /\ dedup_input = <<>>
    /\ dedup_once = None

Init ==
    InitScraper /\ IdleDedup /\ IdleChunk /\ IdleLoad /\ IdleWait /\ IdleExtract
        /\ IdleCaller /\ IdleUpload

Spec == Init /\ [][Next]_vars

\* a running program takes its next step; Ctrl-C need never come
FairSpec == Spec /\ WF_vars(Next)

-----------------------------------------------------------------------------
(* src/start2.py: AdvancedDocumentProcessor.deduplicate_chunks *)

\* str.isspace(), which both str.strip() and the pattern \s go by
Whitespace == {" ", "\t", "\n"}

Uppercase == <<"A", "B", "C", "D", "E", "F", "G", "H", "I", "J", "K", "L", "M",
               "N", "O", "P", "Q", "R", "S", "T", "U", "V", "W", "X", "Y", "Z">>
Lowercase == <<"a", "b", "c", "d", "e", "f", "g", "h", "i", "j", "k", "l", "m",
               "n", "o", "p", "q", "r", "s", "t", "u", "v", "w", "x", "y", "z">>
LowerOf == [c \in {Uppercase[k] : k \in 1..Len(Uppercase)} |->
               Lowercase[CHOOSE k \in 1..Len(Uppercase) : Uppercase[k] = c]]

\* str.lower(), character by character
LowerChar(c) == IF c \in DOMAIN LowerOf THEN LowerOf[c] ELSE c
lower(text) == [k \in 1..Len(text) |-> LowerChar(text[k])]

RECURSIVE lstrip(_)
lstrip(text) ==
    IF text # <<>> /\ Head(text) \in Whitespace THEN lstrip(Tail(text))
    ELSE text

RECURSIVE rstrip(_)
rstrip(text) ==
    IF text # <<>> /\ Last(text) \in Whitespace
    THEN rstrip(SubSeq(text, 1, Len(text) - 1))
    ELSE text

\* str.strip()
strip(text) == rstrip(lstrip(text))

RECURSIVE sub_whitespace_runs(_)
\* re.sub(r'\s+', ' ', text): every maximal whitespace run becomes one blank
sub_whitespace_runs(text) ==
    IF text = <<>> THEN <<>>
    ELSE IF Head(text) \in Whitespace
    THEN <<" ">> \o sub_whitespace_runs(lstrip(text))
    ELSE <<Head(text)>> \o sub_whitespace_runs(Tail(text))

\* a variant of line 181 without .lower()
signature_CaseSensitive(page_content) ==
    sub_whitespace_runs(strip(page_content))

\* line 181: re.sub(r'\s+', ' ', chunk.page_content.lower().strip())
signature(page_content) == sub_whitespace_runs(strip(lower(page_content)))

\* the texts passages are drawn from: letters in both cases, whitespace
\* runs of length 0, 1 and 2 inside, before and after the letters, blanks,
\* tabs and line breaks, the empty and the blank text
TextPool == {
    <<"a">>, <<"A">>, <<" ", "a">>, <<"a", "\t">>,
    <<"a", " ", "b">>, <<"A", " ", "\n", "B">>,
    <<"\t", "A", " ", " ", "b", " ">>,
    <<"a", "b">>,
    <<>>, <<" ">> }

RECURSIVE SeqsUpTo(_, _)
\* the sequences over S of length at most n
SeqsUpTo(S, n) ==
    IF n = 0 THEN {<<>>}
    ELSE LET shorter == SeqsUpTo(S, n - 1)
         IN  shorter \cup {Append(q, x) : q \in {r \in shorter : Len(r) = n - 1},
                                          x \in S}

\* a Document: its page_content and its metadata, which here tells the
\* passages of one input apart
Document(text, n) == [page_content |-> text, metadata |-> [passage |-> n]]

PassageSeqs ==
    {[k \in 1..Len(texts) |-> Document(texts[k], k)] :
        texts \in SeqsUpTo(TextPool, MaxChunks)}

\* the scraper does not run in a deduplication run
IdleScraper ==
    /\ driver = "None"
    /\ ordinances = <<>>
    /\ failed_urls = <<>>
    /\ retry_count = 3
    /\ delay_between_requests = 3
    /\ known_chapters = default_known_chapters
    /\ pc = "idle"
    /\ all_urls_to_scrape = <<>>
    /\ i = 1
    /\ content_data = None
    /\ page_outcome = "none"
    /\ returned = None
    /\ ending = "running"
    /\ raised_in = "nowhere"
    /\ browser = "absent"
    /\ files = NoFiles
    /\ events = <<>>

\* deduplicate_chunks(chunks) is entered (lines 176-177)
InitDedup ==
    /\ IdleScraper
    /\ IdleChunk
    /\ IdleLoad
    /\ IdleWait
    /\ IdleExtract
    /\ IdleCaller
    /\ IdleUpload
    /\ dedup_input \in PassageSeqs
    /\ chunks = dedup_input
    /\ idx = 1
    /\ unique_chunks = <<>>
    /\ seen_content = {}
    /\ dedup_once = None
    /\ dpc = "loop"

\* a variant of line 185 that puts the novel chunk first
DedupIter_Prepends ==
    /\ dpc = "loop"
    /\ idx <= Len(chunks)
    /\ IF signature(chunks[idx].page_content) \notin seen_content
       THEN /\ seen_content' =
                 seen_content \cup {signature(chunks[idx].page_content)}
            /\ unique_chunks' = <<chunks[idx]>> \o unique_chunks
       ELSE UNCHANGED <<seen_content, unique_chunks>>
    /\ idx' = idx + 1
    /\ UNCHANGED <<dpc, chunks, dedup_input, dedup_once>>
    /\ UNCHANGED other_than_dedup

\* a variant of lines 183-185 in which a later duplicate takes the place
\* of the retained chunk
DedupIter_LastWins ==
    /\ dpc = "loop"
    /\ idx <= Len(chunks)
    /\ IF signature(chunks[idx].page_content) \notin seen_content
       THEN /\ seen_content' =
                 seen_content \cup {signature(chunks[idx].page_content)}
            /\ unique_chunks' = Append(unique_chunks, chunks[idx])
       ELSE /\ unique_chunks' =
                 [k \in 1..Len(unique_chunks) |->
                    IF signature(unique_chunks[k].page_content)
                         = signature(chunks[idx].page_content)
                    THEN chunks[idx] ELSE unique_chunks[k]]
            /\ UNCHANGED seen_content
    /\ idx' = idx + 1
    /\ UNCHANGED <<dpc, chunks, dedup_input, dedup_once>>
    /\ UNCHANGED other_than_dedup

\* lines 179-185: one iteration of the loop over chunks
DedupIter ==
    /\ dpc = "loop"
    /\ idx <= Len(chunks)
    /\ IF signature(chunks[idx].page_content) \notin seen_content
       THEN /\ seen_content' =
                 seen_content \cup {signature(chunks[idx].page_content)}
            /\ unique_chunks' = Append(unique_chunks, chunks[idx])
       ELSE UNCHANGED <<seen_content, unique_chunks>>
    /\ idx' = idx + 1
    /\ UNCHANGED <<dpc, chunks, dedup_input, dedup_once>>
    /\ UNCHANGED other_than_dedup

\* line 188: return unique_chunks
DedupReturn ==
    /\ dpc = "loop"
    /\ idx > Len(chunks)
    /\ IF IsNone(dedup_once)
       THEN /\ dedup_once' = Some(unique_chunks)
            /\ dpc' = "returned"
       ELSE /\ dpc' = "returned_again"
            /\ UNCHANGED dedup_once
    /\ UNCHANGED <<chunks, idx, unique_chunks, seen_content, dedup_input>>
    /\ UNCHANGED other_than_dedup

\* deduplicate_chunks is called on what it returned
DedupAgain ==
    /\ dpc = "returned"
    /\ chunks' = Get(dedup_once)
    /\ idx' = 1
    /\ unique_chunks' = <<>>
    /\ seen_content' = {}
    /\ dpc' = "loop"
    /\ UNCHANGED <<dedup_input, dedup_once>>
    /\ UNCHANGED other_than_dedup

NextDedup ==
    \/ DedupIter
    \/ DedupReturn
    \/ DedupAgain

SpecDedup == InitDedup /\ [][NextDedup]_vars

-----------------------------------------------------------------------------
(* src/start2.py: the text operations of the chunking strategies *)

Max(a, b) == IF a >= b THEN a ELSE b

\* the characters [.!?] of the sentence and rule patterns
Punctuation == {".", "!", "?"}

\* the characters [a-z] of the pattern of line 157
LowercaseLetters == {Lowercase[k] : k \in 1..Len(Lowercase)}

\* the n-th smallest number of a finite set of numbers
Nth(S, n) == CHOOSE p \in S : Cardinality({q \in S : q < p}) = n - 1

\* the smallest number of a non-empty finite set of numbers
Least(S) == CHOOSE p \in S : \A q \in S : p <= q

\* needle in hay
Contains(needle, hay) ==
    \E p \in 1..(Len(hay) - Len(needle) + 1) :
        \A j \in 1..Len(needle) : hay[p + j - 1] = needle[j]

RECURSIVE Join(_, _)
\* sep.join(parts)
Join(sep, parts) ==
    IF parts = <<>> THEN <<>>
    ELSE IF Len(parts) = 1 THEN parts[1]
    ELSE parts[1] \o sep \o Join(sep, Tail(parts))

\* re.split(r'(?<=[.!?])\s+', content): the pieces between the maximal
\* whitespace runs that directly follow a character of [.!?]
split_sentences(content) ==
    LET starts == {p \in 2..Len(content) :
                      /\ content[p] \in Whitespace
                      /\ content[p - 1] \in Punctuation}
        RunEnd(p) == Least({e \in p..Len(content) :
                               e = Len(content) \/ content[e + 1] \notin Whitespace})
        n == Cardinality(starts)
        From(j) == IF j = 1 THEN 1 ELSE RunEnd(Nth(starts, j - 1)) + 1
        To(j) == IF j = n + 1 THEN Len(content) ELSE Nth(starts, j) - 1
    IN  [j \in 1..(n + 1) |-> SubSeq(content, From(j), To(j))]

\* Document(page_content=..., metadata=...)
MakeDocument(page_content, metadata) ==
    [page_content |-> page_content, metadata |-> metadata]

\* {**metadata, key: value, ...}: the later keys win
Merge(metadata, more) ==
    [k \in DOMAIN metadata \cup DOMAIN more |->
        IF k \in DOMAIN more THEN more[k] ELSE metadata[k]]


\* self.important_keywords (lines 32-45)
important_keywords ==
    <<
      <<"d", "o", "g">>,
      <<"p", "e", "t">>,
      <<"a", "n", "i", "m", "a", "l">>,
      <<"l", "e", "a", "s", "h">>,
      <<"p", "a", "r", "k">>,
      <<"r", "e", "c", "r", "e", "a", "t", "i", "o", "n">>,
      <<"f", "i", "r", "e">>,
      <<"p", "i", "t">>,
      <<"b", "u", "r", "n">>,
      <<"f", "l", "a", "m", "e">>,
      <<"o", "u", "t", "d", "o", "o", "r">>,
      <<"v", "o", "t", "e">>,
      <<"v", "o", "t", "i", "n", "g">>,
      <<"e", "l", "e", "c", "t", "i", "o", "n">>,
      <<"b", "a", "l", "l", "o", "t">>,
      <<"r", "e", "g", "i", "s", "t", "e", "r">>,
      <<"p", "e", "r", "m", "i", "t">>,
      <<"l", "i", "c", "e", "n", "s", "e">>,
      <<"a", "p", "p", "l", "i", "c", "a", "t", "i", "o", "n">>,
      <<"f", "e", "e">>,
      <<"n", "o", "i", "s", "e">>,
      <<"s", "o", "u", "n", "d">>,
      <<"q", "u", "i", "e", "t">>,
      <<"d", "i", "s", "t", "u", "r", "b">>,
      <<"p", "a", "r", "k", "i", "n", "g">>,
      <<"v", "e", "h", "i", "c", "l", "e">>,
      <<"c", "a", "r">>,
      <<"t", "r", "u", "c", "k">>,
      <<"b", "u", "s", "i", "n", "e", "s", "s">>,
      <<"c", "o", "m", "m", "e", "r", "c", "i", "a", "l">>,
      <<"r", "e", "t", "a", "i", "l">>,
      <<"r", "e", "s", "t", "a", "u", "r", "a", "n", "t">>,
      <<"z", "o", "n", "i", "n", "g">>,
      <<"r", "e", "s", "i", "d", "e", "n", "t", "i", "a", "l">>,
      <<"i", "n", "d", "u", "s", "t", "r", "i", "a", "l">>,
      <<"t", "a", "x">>,
      <<"p", "r", "o", "p", "e", "r", "t", "y">>,
      <<"a", "s", "s", "e", "s", "s", "m", "e", "n", "t">>,
      <<"p", "a", "y", "m", "e", "n", "t">>,
      <<"s", "m", "o", "k", "i", "n", "g">>,
      <<"t", "o", "b", "a", "c", "c", "o">>,
      <<"c", "i", "g", "a", "r", "e", "t", "t", "e">>,
      <<"v", "a", "p", "i", "n", "g">>,
      <<"a", "l", "c", "o", "h", "o", "l">>,
      <<"b", "e", "e", "r">>,
      <<"w", "i", "n", "e">>,
      <<"l", "i", "q", "u", "o", "r">>,
      <<"c", "h", "i", "c", "k", "e", "n">>,
      <<"l", "i", "v", "e", "s", "t", "o", "c", "k">>,
      <<"f", "a", "r", "m">>,
      <<"a", "g", "r", "i", "c", "u", "l", "t", "u", "r", "e">> >>

\* the keywords of the run: the first MaxKeywords of the list (no document
\* of DocumentPool holds any of the others)
Keywords == SubSeq(important_keywords, 1,
                   Min(MaxKeywords, Len(important_keywords)))

-----------------------------------------------------------------------------
(* src/start2.py: create_keyword_focused_chunks *)

\* a variant of lines 118-120 whose window starts at the matching sentence
context_window_NoPrevious(sentences, k) ==
    SubSeq(sentences, k, Min(Len(sentences), k + 1))

\* lines 118-120: sentences[max(0, i - 1):min(len(sentences), i + 2)], for
\* the sentence at the 1-based place k
context_window(sentences, k) ==
    SubSeq(sentences, Max(1, k - 1), Min(Len(sentences), k + 1))

\* line 121: " ".join(s.strip() for s in context_window)
chunk_content(window) ==
    Join(<<" ">>, [m \in 1..Len(window) |-> strip(window[m])])

\* line 116: keyword.lower() in sentence.lower() and
\* len(sentence.strip()) > 20
KeywordHit(keyword, sentence) ==
    /\ Contains(lower(keyword), lower(sentence))
    /\ Len(strip(sentence)) > 20

\* a variant of line 123 that keeps every window
IsSubstantial_Always(text) == TRUE

\* lines 123 and 160: len(...) > 100
IsSubstantial(text) == Len(text) > 100

\* lines 124-132
KeywordChunk(doc, keyword, text) ==
    MakeDocument(text,
        Merge(doc.metadata, [chunk_type |-> "keyword_focused",
                             strategy |-> "specific_query",
                             focus_keyword |-> keyword]))

\* create_keyword_focused_chunks: the loop over the keywords, inside it the
\* loop over the sentences
create_keyword_focused_chunks(doc) ==
    LET content == doc.page_content
        sentences == split_sentences(content)
        Body(keyword, k) ==
            IF KeywordHit(keyword, sentences[k])
            THEN LET text == chunk_content(context_window(sentences, k))
                 IN  IF IsSubstantial(text)
                     THEN <<KeywordChunk(doc, keyword, text)>>
                     ELSE <<>>
            ELSE <<>>
    IN  Concat([n \in 1..Len(Keywords) |->
            Concat([k \in 1..Len(sentences) |-> Body(Keywords[n], k)])])

-----------------------------------------------------------------------------
(* src/start2.py: create_qa_chunks *)

\* rule_patterns (lines 141-146) as they are written
rule_pattern_sources == <<
    "(shall not|shall be|must|required|prohibited|allowed|permitted)[^.!?]*[.!?]",
    "(it is unlawful|violation|penalty|fine)[^.!?]*[.!?]",
    "(application for|permit required|license fee)[^.!?]*[.!?]",
    "(hours of operation|open from|closed to)[^.!?]*[.!?]" >>

\* the alternatives of each pattern's group, in the order they are tried
rule_patterns == <<
    <<
      <<"s", "h", "a", "l", "l", " ", "n", "o", "t">>,
      <<"s", "h", "a", "l", "l", " ", "b", "e">>,
      <<"m", "u", "s", "t">>,
      <<"r", "e", "q", "u", "i", "r", "e", "d">>,
      <<"p", "r", "o", "h", "i", "b", "i", "t", "e", "d">>,
      <<"a", "l", "l", "o", "w", "e", "d">>,
      <<"p", "e", "r", "m", "i", "t", "t", "e", "d">> >>,
    <<
      <<"i", "t", " ", "i", "s", " ", "u", "n", "l", "a", "w", "f", "u", "l">>,
      <<"v", "i", "o", "l", "a", "t", "i", "o", "n">>,
      <<"p", "e", "n", "a", "l", "t", "y">>,
      <<"f", "i", "n", "e">> >>,
    <<
      <<"a", "p", "p", "l", "i", "c", "a", "t", "i", "o", "n", " ", "f",
        "o", "r">>,
      <<"p", "e", "r", "m", "i", "t", " ", "r", "e", "q", "u", "i", "r",
        "e", "d">>,
      <<"l", "i", "c", "e", "n", "s", "e", " ", "f", "e", "e">> >>,
    <<
      <<"h", "o", "u", "r", "s", " ", "o", "f", " ", "o", "p", "e", "r",
        "a", "t", "i", "o", "n">>,
      <<"o", "p", "e", "n", " ", "f", "r", "o", "m">>,
      <<"c", "l", "o", "s", "e", "d", " ", "t", "o">> >> >>

\* one of the alternatives matches at p, whatever the case (re.IGNORECASE)
PhraseAt(phrases, content, p) ==
    \E a \in 1..Len(phrases) :
        /\ p + Len(phrases[a]) - 1 <= Len(content)
        /\ \A j \in 1..Len(phrases[a]) :
              LowerChar(content[p + j - 1]) = phrases[a][j]

\* the places after p that hold a character of [.!?]
PunctuationAfter(content, p) ==
    {q \in (p + 1)..Len(content) : content[q] \in Punctuation}

RECURSIVE finditer(_, _, _)
\* re.finditer(pattern, content, re.IGNORECASE) from place from on: the
\* leftmost place where an alternative matches and [^.!?]*[.!?] can end,
\* the match running to the first character of [.!?]; the search goes on
\* behind the match
finditer(phrases, content, from) ==
    LET hits == {p \in from..Len(content) :
                    /\ PhraseAt(phrases, content, p)
                    /\ PunctuationAfter(content, p) # {}}
    IN  IF hits = {} THEN <<>>
        ELSE LET p == Least(hits)
                 q == Least(PunctuationAfter(content, p))
             IN  <<[first |-> p, last |-> q]>>
                 \o finditer(phrases, content, q + 1)

\* lines 152-154: content[max(0, match.start() - 150):
\* min(len(content), match.end() + 150)].strip()
context_of(content, match) ==
    strip(SubSeq(content, Max(1, match.first - 150),
                 Min(Len(content), match.last + 150)))

\* line 157, re.sub(r'^[a-z].*?\s', '', context): a context that begins
\* with a lowercase letter loses everything up to its first whitespace
sub_leading_fragment(context) ==
    LET blanks == {w \in 2..Len(context) : context[w] \in Whitespace}
    IN  IF context # <<>> /\ context[1] \in LowercaseLetters /\ blanks # {}
        THEN SubSeq(context, Least(blanks) + 1, Len(context))
        ELSE context

\* line 158, re.sub(r'\s.*?([.!?]).*$', r'\1', context): from the leftmost
\* whitespace behind which the text has no line break and has a character
\* of [.!?], everything is replaced by the first such character
sub_line_tail(context) ==
    LET blanks == {w \in 1..Len(context) :
                      /\ context[w] \in Whitespace
                      /\ \A k \in (w + 1)..Len(context) : context[k] # "\n"
                      /\ PunctuationAfter(context, w) # {}}
    IN  IF blanks = {} THEN context
        ELSE LET w == Least(blanks)
             IN  SubSeq(context, 1, w - 1)
                 \o <<context[Least(PunctuationAfter(context, w))]>>

\* lines 161-169
QaChunk(doc, n, text) ==
    MakeDocument(text,
        Merge(doc.metadata, [chunk_type |-> "qa_style",
                             strategy |-> "rule_based",
                             rule_pattern |-> rule_pattern_sources[n]]))

\* create_qa_chunks: the loop over the patterns, inside it the loop over
\* the matches
create_qa_chunks(doc) ==
    LET content == doc.page_content
        Body(n, match) ==
            LET context == sub_line_tail(sub_leading_fragment(
                               context_of(content, match)))
            IN  IF IsSubstantial(context) THEN <<QaChunk(doc, n, context)>>
                ELSE <<>>
        Matches(n) == finditer(rule_patterns[n], content, 1)
    IN  Concat([n \in 1..Len(rule_patterns) |->
            Concat([m \in 1..Len(Matches(n)) |-> Body(n, Matches(n)[m])])])


-----------------------------------------------------------------------------
(* src/start2.py: the documents of a chunking run *)

\* "Dogs must be leashed when in any county park."
LeashSentence ==
    <<"D", "o", "g", "s", " ", "m", "u", "s", "t", " ", "b", "e", " ", "l",
      "e", "a", "s", "h", "e", "d", " ", "w", "h", "e", "n", " ", "i", "n",
      " ", "a", "n", "y", " ", "c", "o", "u", "n", "t", "y", " ", "p", "a",
      "r", "k", ".">>

\* a document whose trimmed text is shorter than 50 characters
Text_short ==
    <<" ", " ", "D", "o", "g", "s", " ", "m", "u", "s", "t", " ", "b", "e",
      " ", "l", "e", "a", "s", "h", "e", "d", " ", "w", "h", "e", "n", " ",
      "i", "n", " ", "a", "n", "y", " ", "c", "o", "u", "n", "t", "y", " ",
      "p", "a", "r", "k", ".", " ", "\n">>

\* three sentences on one line, the second one the leash sentence
Text_plain ==
    <<"T", "h", "e", " ", "c", "o", "u", "n", "t", "y", " ", "a", "d", "o",
      "p", "t", "e", "d", " ", "n", "e", "w", " ", "r", "u", "l", "e", "s",
      " ", "i", "n", " ", "t", "h", "e", " ", "s", "p", "r", "i", "n", "g",
      " ", "o", "f", " ", "t", "h", "i", "s", " ", "y", "e", "a", "r", ".",
      " ", "D", "o", "g", "s", " ", "m", "u", "s", "t", " ", "b", "e", " ",
      "l", "e", "a", "s", "h", "e", "d", " ", "w", "h", "e", "n", " ", "i",
      "n", " ", "a", "n", "y", " ", "c", "o", "u", "n", "t", "y", " ", "p",
      "a", "r", "k", ".", " ", "O", "w", "n", "e", "r", "s", " ", "w", "h",
      "o", " ", "d", "o", " ", "n", "o", "t", " ", "c", "o", "m", "p", "l",
      "y", " ", "a", "r", "e", " ", "s", "u", "b", "j", "e", "c", "t", " ",
      "t", "o", " ", "a", " ", "p", "e", "n", "a", "l", "t", "y", " ", "o",
      "f", " ", "f", "i", "f", "t", "y", " ", "d", "o", "l", "l", "a", "r",
      "s", ".">>

\* three lines: a lowercase heading, the leash sentence, a long word
Text_lines ==
    <<"o", "w", "n", "e", "r", "s", " ", "n", "o", "t", "e", ":", "\n",
      "D", "o", "g", "s", " ", "m", "u", "s", "t", " ", "b", "e", " ", "l",
      "e", "a", "s", "h", "e", "d", " ", "w", "h", "e", "n", " ", "i", "n",
      " ", "a", "n", "y", " ", "c", "o", "u", "n", "t", "y", " ", "p", "a",
      "r", "k", ".", "\n", "x", "x", "x", "x", "x", "x", "x", "x", "x",
      "x", "x", "x", "x", "x", "x", "x", "x", "x", "x", "x", "x", "x", "x",
      "x", "x", "x", "x", "x", "x", "x", "x", "x", "x", "x", "x", "x", "x",
      "x", "x", "x", "x", "x", "x", "x", "x", "x", "x", "x", "x", "x", "x",
      "x", "x", "x", "x", "x", "x", "x", "x", "x">>

\* two short sentences, 55 characters in all
Text_brief ==
    <<"D", "o", "g", "s", " ", "m", "u", "s", "t", " ", "b", "e", " ", "l",
      "e", "a", "s", "h", "e", "d", " ", "w", "h", "e", "n", " ", "i", "n",
      " ", "a", "n", "y", " ", "c", "o", "u", "n", "t", "y", " ", "p", "a",
      "r", "k", ".", " ", "I", "t", " ", "i", "s", " ", "s", "o", ".">>

\* three sentences and a trailing line break: "dog" in the first and
\* the third sentence, "park" in the second
Text_order ==
    <<"D", "O", "G", " ", "o", "w", "n", "e", "r", "s", " ", "a", "r", "e",
      " ", "w", "e", "l", "c", "o", "m", "e", " ", "i", "n", " ", "t", "h",
      "e", " ", "n", "o", "r", "t", "h", " ", "m", "e", "a", "d", "o", "w",
      " ", "a", "t", " ", "a", "n", "y", " ", "h", "o", "u", "r", ".", " ",
      "T", "h", "e", " ", "P", "A", "R", "K", " ", "c", "l", "o", "s", "e",
      "s", " ", "a", "t", " ", "d", "u", "s", "k", " ", "o", "n", " ", "e",
      "a", "c", "h", " ", "d", "a", "y", " ", "o", "f", " ", "t", "h", "e",
      " ", "w", "e", "e", "k", ".", " ", " ", "A", "n", "y", " ", "d", "o",
      "g", " ", "f", "o", "u", "n", "d", " ", "r", "o", "a", "m", "i", "n",
      "g", " ", "i", "s", " ", "t", "a", "k", "e", "n", " ", "t", "o", " ",
      "t", "h", "e", " ", "c", "o", "u", "n", "t", "y", " ", "s", "h", "e",
      "l", "t", "e", "r", "!", "\n">>

\* "park" in a sentence of 17 characters, "animal" in a long one
Text_small ==
    <<"P", "a", "r", "k", " ", "r", "u", "l", "e", "s", " ", "a", "p", "p",
      "l", "y", ".", " ", "E", "v", "e", "r", "y", " ", "v", "i", "s", "i",
      "t", "o", "r", " ", "i", "s", " ", "e", "x", "p", "e", "c", "t", "e",
      "d", " ", "t", "o", " ", "f", "o", "l", "l", "o", "w", " ", "t", "h",
      "e", " ", "p", "o", "s", "t", "e", "d", " ", "n", "o", "t", "i", "c",
      "e", "s", " ", "a", "t", " ", "a", "l", "l", " ", "h", "o", "u", "r",
      "s", " ", "o", "f", " ", "t", "h", "e", " ", "d", "a", "y", " ", "a",
      "n", "d", " ", "n", "i", "g", "h", "t", ".", " ", "A", "n", "i", "m",
      "a", "l", " ", "c", "o", "n", "t", "r", "o", "l", " ", "o", "f", "f",
      "i", "c", "e", "r", "s", " ", "m", "a", "y", " ", "i", "s", "s", "u",
      "e", " ", "a", " ", "w", "r", "i", "t", "t", "e", "n", " ", "w", "a",
      "r", "n", "i", "n", "g", ".">>

\* three lines: a heading, a rule without a full stop, a call that ends
\* with an exclamation mark
Text_heading ==
    <<"S", "e", "c", ".", " ", "1", "8", "-", "2", ".", " ", "R", "e", "s",
      "t", "r", "a", "i", "n", "t", " ", "o", "f", " ", "a", "n", "i", "m",
      "a", "l", "s", " ", "i", "n", " ", "t", "h", "e", " ", "p", "a", "r",
      "k", "s", " ", "a", "n", "d", " ", "o", "n", " ", "t", "h", "e", " ",
      "t", "r", "a", "i", "l", "s", " ", "o", "f", " ", "t", "h", "e", " ",
      "c", "o", "u", "n", "t", "y", "\n", "D", "o", "g", "s", " ", "m", "u",
      "s", "t", " ", "b", "e", " ", "l", "e", "a", "s", "h", "e", "d", " ",
      "w", "h", "e", "n", " ", "i", "n", " ", "a", "n", "y", " ", "c", "o",
      "u", "n", "t", "y", " ", "p", "a", "r", "k", "\n", "C", "a", "l", "l",
      " ", "t", "h", "e", " ", "c", "o", "u", "n", "t", "y", " ", "c", "l",
      "e", "r", "k", " ", "n", "o", "w", "!">>

\* a loaded document: its text and the metadata load_documents gave it
SourceDocument(text, source) ==
    MakeDocument(text, [source |-> source])

DocumentPool == {
    SourceDocument(Text_short, "short.pdf"),
    SourceDocument(Text_plain, "plain.pdf"),
    SourceDocument(Text_lines, "lines.pdf"),
    SourceDocument(Text_brief, "brief.docx"),
    SourceDocument(Text_order, "order.docx"),
    SourceDocument(Text_small, "small.pdf"),
    SourceDocument(Text_heading, "heading.pdf") }

-----------------------------------------------------------------------------
(* src/start2.py: create_enhanced_chunks *)

\* self.text_splitter is langchain's RecursiveCharacterTextSplitter with
\* chunk_size=800
chunk_size == 800

\* self.text_splitter.split_documents([doc]) for a text of at most
\* chunk_size characters: the splitter puts the pieces together again and
\* returns the trimmed text as one chunk, with a copy of the metadata
split_documents(doc) ==
    IF strip(doc.page_content) = <<>> THEN <<>>
    ELSE <<MakeDocument(strip(doc.page_content), doc.metadata)>>

\* lines 93-95: the tags of the broad-context chunks
TagOriginal(original_chunks) ==
    [k \in 1..Len(original_chunks) |->
        MakeDocument(original_chunks[k].page_content,
            Merge(original_chunks[k].metadata,
                  [chunk_type |-> "original", strategy |-> "broad_context"]))]

\* lines 87-88: len(doc.page_content.strip()) < 50
IsTooShort(doc) == Len(strip(doc.page_content)) < 50

\* the document lists a run is given
DocumentLists == SeqsUpTo(DocumentPool, MaxDocs)

\* create_enhanced_chunks(documents) is entered (line 84)
InitChunk ==
    /\ IdleScraper
    /\ IdleDedup
    /\ IdleLoad
    /\ IdleWait
    /\ IdleExtract
    /\ IdleCaller
    /\ IdleUpload
    /\ documents \in DocumentLists
    /\ \A k \in 1..Len(documents) :
          Len(documents[k].page_content) <= chunk_size
    /\ doc_i = 1
    /\ all_enhanced_chunks = <<>>
    /\ cpc = "for"

\* lines 86-89: a document with too short a text is passed over
ChunkSkip ==
    /\ cpc = "for"
    /\ doc_i <= Len(documents)
    /\ IsTooShort(documents[doc_i])
    /\ doc_i' = doc_i + 1
    /\ UNCHANGED <<cpc, documents, all_enhanced_chunks>>
    /\ UNCHANGED other_than_chunk

\* lines 91-96: strategy 1
ChunkOriginal ==
    /\ cpc = "for"
    /\ doc_i <= Len(documents)
    /\ ~IsTooShort(documents[doc_i])
    /\ all_enhanced_chunks' = all_enhanced_chunks
           \o TagOriginal(split_documents(documents[doc_i]))
    /\ cpc' = "keyword"
    /\ UNCHANGED <<documents, doc_i>>
    /\ UNCHANGED other_than_chunk

\* a variant of lines 98-104 that runs strategy 3 in the place of strategy 2
ChunkKeyword_RulesFirst ==
    /\ cpc = "keyword"
    /\ all_enhanced_chunks' = all_enhanced_chunks
           \o create_qa_chunks(documents[doc_i])
           \o create_keyword_focused_chunks(documents[doc_i])
    /\ cpc' = "for"
    /\ doc_i' = doc_i + 1
    /\ UNCHANGED documents
    /\ UNCHANGED other_than_chunk

\* lines 98-100: strategy 2
ChunkKeyword ==
    /\ cpc = "keyword"
    /\ all_enhanced_chunks' = all_enhanced_chunks
           \o create_keyword_focused_chunks(documents[doc_i])
    /\ cpc' = "qa"
    /\ UNCHANGED <<documents, doc_i>>
    /\ UNCHANGED other_than_chunk

\* lines 102-104: strategy 3, and on to the next document
ChunkQa ==
    /\ cpc = "qa"
    /\ all_enhanced_chunks' = all_enhanced_chunks
           \o create_qa_chunks(documents[doc_i])
    /\ cpc' = "for"
    /\ doc_i' = doc_i + 1
    /\ UNCHANGED documents
    /\ UNCHANGED other_than_chunk

\* lines 106-107: the loop is over
ChunkReturn ==
    /\ cpc = "for"
    /\ doc_i > Len(documents)
    /\ cpc' = "returned"
    /\ UNCHANGED <<documents, doc_i, all_enhanced_chunks>>
    /\ UNCHANGED other_than_chunk

NextChunk ==
    \/ ChunkSkip
    \/ ChunkOriginal
    \/ ChunkKeyword
    \/ ChunkQa
    \/ ChunkReturn

SpecChunk == InitChunk /\ [][NextChunk]_vars

-----------------------------------------------------------------------------
(* src/start2.py: load_documents *)

\* text.endswith(suffix)
EndsWith(text, suffix) ==
    /\ Len(suffix) <= Len(text)
    /\ SubSeq(text, Len(text) - Len(suffix) + 1, Len(text)) = suffix

\* the part of a text behind the last occurrence of a character, the whole
\* text when the character does not occur: text.split(c)[-1]
AfterLast(text, c) ==
    LET hits == {k \in 1..Len(text) : text[k] = c}
    IN  IF hits = {} THEN text
        ELSE SubSeq(text, (CHOOSE k \in hits : \A m \in hits : m <= k) + 1,
                    Len(text))

\* os.path.basename(path)
basename(path) == AfterLast(path, "/")

\* os.path.join(data_folder, f)
path_join(folder, f) == folder \o <<"/">> \o f

\* len(text.split()): the number of maximal runs of non-whitespace
word_count(text) ==
    Cardinality({k \in 1..Len(text) :
                    /\ text[k] \notin Whitespace
                    /\ (k = 1 \/ text[k - 1] \in Whitespace)})

data_folder == <<"d", "a", "t", "a">>
Ext_docx == <<".", "d", "o", "c", "x">>
Ext_pdf == <<".", "p", "d", "f">>

\* the entries a data folder may have
FileNames == {
    <<"a", ".", "p", "d", "f">>,
    <<"b", ".", "d", "o", "c", "x">>,
    <<"n", "o", "t", "e", "s", ".", "t", "x", "t">>,
    <<"c", ".", "v", "2", ".", "p", "d", "f">> }

\* the listings of a data folder: its entries are distinct
Listings ==
    {l \in SeqsUpTo(FileNames, MaxFiles) :
        \A a, b \in 1..Len(l) : a # b => l[a] # l[b]}

\* lines 51-52: the paths of the entries that end in .docx or .pdf
ListPaths(entries) ==
    LET kept == SelectSeq(entries, LAMBDA f : EndsWith(f, Ext_docx)
                                              \/ EndsWith(f, Ext_pdf))
    IN  [k \in 1..Len(kept) |-> path_join(data_folder, kept[k])]

\* what loader.load() may return: no element, one element, two elements,
\* each with the metadata the loader gives it
LoaderResults == {
    <<>>,
    << MakeDocument(<<"a", " ", "b">>, [page |-> 0]) >>,
    << MakeDocument(<<"\t", "A", " ", " ", "b", " ">>, [page |-> 0]),
       MakeDocument(<<>>, [page |-> 1]) >> }

\* lines 65-71: doc.metadata.update({...})
Enrich(doc, file_path) ==
    MakeDocument(doc.page_content,
        Merge(doc.metadata,
              [source |-> basename(file_path),
               file_type |-> AfterLast(file_path, "."),
               doc_length |-> Len(doc.page_content),
               word_count |-> word_count(doc.page_content)]))

\* load_documents(data_folder) is entered (lines 50-52)
InitLoad ==
    /\ IdleScraper
    /\ IdleDedup
    /\ IdleChunk
    /\ IdleWait
    /\ IdleExtract
    /\ IdleCaller
    /\ IdleUpload
    /\ listing \in Listings
    /\ file_paths = ListPaths(listing)
    /\ file_i = 1
    /\ all_documents = <<>>
    /\ load_log = <<>>
    /\ lpc = "for"

\* lines 56-74: the loader returns its elements; they are enriched and
\* appended
LoadFileOk(loaded) ==
    /\ lpc = "for"
    /\ file_i <= Len(file_paths)
    /\ all_documents' = all_documents
           \o [k \in 1..Len(loaded) |-> Enrich(loaded[k], file_paths[file_i])]
    /\ load_log' = Append(load_log, [file_path |-> file_paths[file_i],
                                     loaded |-> Some(loaded)])
    /\ file_i' = file_i + 1
    /\ UNCHANGED <<lpc, listing, file_paths>>
    /\ UNCHANGED other_than_load

\* a variant of lines 76-77 without the except clause
LoadFileRaises_Propagates ==
    /\ lpc = "for"
    /\ file_i <= Len(file_paths)
    /\ load_log' = Append(load_log, [file_path |-> file_paths[file_i],
                                     loaded |-> None])
    /\ lpc' = "raised"
    /\ UNCHANGED <<listing, file_paths, file_i, all_documents>>
    /\ UNCHANGED other_than_load

\* lines 56-62 and 76-77: the loader raises; the error is printed and the
\* loop goes on
LoadFileRaises ==
    /\ lpc = "for"
    /\ file_i <= Len(file_paths)
    /\ load_log' = Append(load_log, [file_path |-> file_paths[file_i],
                                     loaded |-> None])
    /\ file_i' = file_i + 1
    /\ UNCHANGED <<lpc, listing, file_paths, all_documents>>
    /\ UNCHANGED other_than_load

\* line 79
LoadReturn ==
    /\ lpc = "for"
    /\ file_i > Len(file_paths)
    /\ lpc' = "returned"
    /\ UNCHANGED <<listing, file_paths, file_i, all_documents, load_log>>
    /\ UNCHANGED other_than_load

NextLoad ==
    \/ \E loaded \in LoaderResults : LoadFileOk(loaded)
    \/ LoadFileRaises
    \/ LoadReturn

SpecLoad == InitLoad /\ [][NextLoad]_vars

-----------------------------------------------------------------------------
(* src/scraper.py: wait_for_content_load within extract_content_from_page *)

\* content_indicators (lines 116-123)
content_indicators == <<
    "//div[contains(@class, 'content')]",
    "//div[contains(@class, 'section')]",
    "//div[contains(@class, 'ordinance')]",
    "//div[contains(@class, 'code')]",
    "//p[contains(text(), 'Sec.') or contains(text(), 'Section')]",
    "//h1 | //h2 | //h3" >>

\* extract_content_from_page(url) is entered (line 145)
InitWait ==
    /\ IdleScraper
    /\ IdleDedup
    /\ IdleChunk
    /\ IdleLoad
    /\ IdleExtract
    /\ IdleCaller
    /\ IdleUpload
    /\ wpc = "get"
    /\ indicator = 1
    /\ polls = 0
    /\ wait_log = <<>>
    /\ wait_result = None
    /\ sleeps = <<>>
    /\ page_result = None

\* line 145: self.driver.get(url) returns, wait_for_content_load is called
PageGet ==
    /\ wpc = "get"
    /\ wpc' = "wait"
    /\ UNCHANGED <<indicator, polls, wait_log, wait_result, sleeps,
                   page_result>>
    /\ UNCHANGED other_than_wait

\* line 145 raises: the except clause of line 179 returns None
PageGetRaises ==
    /\ wpc = "get"
    /\ page_result' = Some(None)
    /\ wpc' = "returned"
    /\ UNCHANGED <<indicator, polls, wait_log, wait_result, sleeps>>
    /\ UNCHANGED other_than_wait

WaitEntry(outcome) ==
    [indicator |-> content_indicators[indicator], place |-> indicator,
     polls |-> polls, outcome |-> outcome]

\* lines 127-129: one poll of the current wait finds nothing, and the
\* timeout has not passed
WaitPoll ==
    /\ wpc = "wait"
    /\ indicator <= Len(content_indicators)
    /\ polls < MaxPolls
    /\ polls' = polls + 1
    /\ UNCHANGED <<wpc, indicator, wait_log, wait_result, sleeps, page_result>>
    /\ UNCHANGED other_than_wait

\* lines 127-131: a poll of the current wait finds the element: return True
WaitFound ==
    /\ wpc = "wait"
    /\ indicator <= Len(content_indicators)
    /\ polls < MaxPolls
    /\ wait_log' = Append(wait_log, WaitEntry("found"))
    /\ wait_result' = Some(TRUE)
    /\ wpc' = "waited"
    /\ UNCHANGED <<indicator, polls, sleeps, page_result>>
    /\ UNCHANGED other_than_wait

\* a variant of lines 132-133 that waits for the same indicator again
WaitTimeout_SameIndicator ==
    /\ wpc = "wait"
    /\ indicator <= Len(content_indicators)
    /\ polls = MaxPolls
    /\ polls' = 0
    /\ UNCHANGED <<wpc, indicator, wait_log, wait_result, sleeps, page_result>>
    /\ UNCHANGED other_than_wait

\* lines 132-133: the timeout of the current wait has passed; TimeoutException
\* is caught and the loop goes on with the next indicator
WaitTimeout ==
    /\ wpc = "wait"
    /\ indicator <= Len(content_indicators)
    /\ polls = MaxPolls
    /\ wait_log' = Append(wait_log, WaitEntry("timeout"))
    /\ indicator' = indicator + 1
    /\ polls' = 0
    /\ UNCHANGED <<wpc, wait_result, sleeps, page_result>>
    /\ UNCHANGED other_than_wait

\* lines 138-140: a poll raises something else than TimeoutException: the
\* outer except clause returns False
WaitError ==
    /\ wpc = "wait"
    /\ indicator <= Len(content_indicators)
    /\ polls < MaxPolls
    /\ wait_log' = Append(wait_log, WaitEntry("error"))
    /\ wait_result' = Some(FALSE)
    /\ wpc' = "waited"
    /\ UNCHANGED <<indicator, polls, sleeps, page_result>>
    /\ UNCHANGED other_than_wait

\* lines 135-136: every wait has timed out: return False
WaitGiveUp ==
    /\ wpc = "wait"
    /\ indicator > Len(content_indicators)
    /\ wait_result' = Some(FALSE)
    /\ wpc' = "waited"
    /\ UNCHANGED <<indicator, polls, wait_log, sleeps, page_result>>
    /\ UNCHANGED other_than_wait

\* lines 148-152: the warning when the wait returned False, then
\* time.sleep(5)
PageSleep ==
    /\ wpc = "waited"
    /\ sleeps' = Append(sleeps, 5)
    /\ wpc' = "extract"
    /\ UNCHANGED <<indicator, polls, wait_log, wait_result, page_result>>
    /\ UNCHANGED other_than_wait

\* lines 154-177, 179-181: the page source is parsed and extracted from;
\* the dict is returned, or None when something raised
PageExtract(raises) ==
    /\ wpc = "extract"
    /\ page_result' = Some(IF raises THEN None ELSE Some("dict"))
    /\ wpc' = "returned"
    /\ UNCHANGED <<indicator, polls, wait_log, wait_result, sleeps>>
    /\ UNCHANGED other_than_wait

NextWait ==
    \/ PageGet
    \/ PageGetRaises
    \/ WaitPoll
    \/ WaitFound
    \/ WaitTimeout
    \/ WaitError
    \/ WaitGiveUp
    \/ PageSleep
    \/ \E raises \in BOOLEAN : PageExtract(raises)

SpecWait == InitWait /\ [][NextWait]_vars

\* the interpreter and the driver keep going: a step that can be taken is
\* taken
FairSpecWait == SpecWait /\ WF_vars(NextWait)

-----------------------------------------------------------------------------
(* src/scraper.py: the parsed page (the BeautifulSoup tree) *)

\* a text node, and an element with its class list, its role attribute and
\* its children
TextNode(text) ==
    [tag |-> "#text", classes |-> {}, role |-> "", kids |-> <<>>, text |-> text]
Element(tag, classes, role, kids) ==
    [tag |-> tag, classes |-> classes, role |-> role, kids |-> kids,
     text |-> <<>>]
\* an element without a role whose only child is a text
Leaf(tag, classes, text) == Element(tag, classes, "", <<TextNode(text)>>)

IsElement(node) == node.tag # "#text"

RECURSIVE Strings(_)
\* the texts of a node and of what is below it, in document order
Strings(node) ==
    IF ~IsElement(node) THEN <<node.text>>
    ELSE Concat([k \in 1..Len(node.kids) |-> Strings(node.kids[k])])

\* node.get_text(separator, strip=True): every text trimmed, the empty ones
\* left out, the others joined by the separator
get_text(node, separator) ==
    LET trimmed == [k \in 1..Len(Strings(node)) |-> strip(Strings(node)[k])]
    IN  Join(separator, SelectSeq(trimmed, LAMBDA t : t # <<>>))

RECURSIVE Paths(_)
\* the places below a node in document order, a place being the sequence
\* of child indices that leads to it
Paths(node) ==
    Concat([k \in 1..Len(node.kids) |->
        LET below == Paths(node.kids[k])
        IN  << <<k>> >> \o [j \in 1..Len(below) |-> <<k>> \o below[j]]])

RECURSIVE NodeAt(_, _)
NodeAt(node, path) ==
    IF path = <<>> THEN node ELSE NodeAt(node.kids[Head(path)], Tail(path))

\* the places of the elements of a tree, in document order
ElementPaths(soup) ==
    SelectSeq(Paths(soup), LAMBDA p : IsElement(NodeAt(soup, p)))

\* the CSS selectors the code uses: a tag name, a class, a role attribute
Tag(name) == [kind |-> "tag", value |-> name]
Class(name) == [kind |-> "class", value |-> name]
Role(name) == [kind |-> "role", value |-> name]

Matches(node, selector) ==
    CASE selector.kind = "tag" -> node.tag = selector.value
      [] selector.kind = "class" -> selector.value \in node.classes
      [] selector.kind = "role" -> node.role = selector.value

\* soup.select_one(selector): the place of the first matching element in
\* document order, or None
select_one(soup, selector) ==
    LET hits == SelectSeq(ElementPaths(soup),
                          LAMBDA p : Matches(NodeAt(soup, p), selector))
    IN  IF hits = <<>> THEN None ELSE Some(hits[1])

\* soup.find_all(names): the places of the elements with one of the names
find_all(soup, names) ==
    SelectSeq(ElementPaths(soup), LAMBDA p : NodeAt(soup, p).tag \in names)

\* a variant of lines 210-211 that removes nothing
decompose_Nothing(node, names) == node

RECURSIVE decompose(_, _)
\* lines 210-211: every element with one of the names is taken out of the
\* tree, with what is below it
decompose(node, names) ==
    LET kept == SelectSeq(node.kids, LAMBDA kid : kid.tag \notin names)
    IN  [node EXCEPT !.kids = [k \in 1..Len(kept) |-> decompose(kept[k], names)]]

RECURSIVE StringOf(_)
\* node.string: the text of a text node; of an element with exactly one
\* child the .string of that child; None otherwise
StringOf(node) ==
    IF ~IsElement(node) THEN Some(node.text)
    ELSE IF Len(node.kids) = 1 THEN StringOf(node.kids[1])
    ELSE None

-----------------------------------------------------------------------------
(* src/scraper.py: extract_page_title *)

Text_unknown_title ==
    <<"U", "n", "k", "n", "o", "w", "n", " ", "T", "i", "t", "l", "e">>

\* a variant of lines 186-192 that tries the title element first
title_selectors_TitleFirst ==
    <<Tag("title"), Tag("h1"), Class("page-title"), Class("section-title"),
      Class("ordinance-title")>>

\* lines 186-192
title_selectors ==
    <<Tag("h1"), Class("page-title"), Class("section-title"),
      Class("ordinance-title"), Tag("title")>>

\* lines 195-201 for one selector: the cleaned-up text of the first matching
\* element if there is one, its text is not empty and the cleaned-up text
\* has more than 10 characters
TitleBy(soup, selector) ==
    LET element == select_one(soup, selector)
    IN  IF IsNone(element) \/ get_text(NodeAt(soup, Get(element)), <<>>) = <<>>
        THEN None
        ELSE LET title == sub_whitespace_runs(
                              get_text(NodeAt(soup, Get(element)), <<>>))
             IN  IF Len(title) > 10 THEN Some(title) ELSE None

\* extract_page_title: the result of the first selector that gives one
extract_page_title(soup) ==
    LET hits == {k \in 1..Len(title_selectors) :
                    ~IsNone(TitleBy(soup, title_selectors[k]))}
    IN  IF hits = {} THEN Text_unknown_title
        ELSE Get(TitleBy(soup, title_selectors[Least(hits)]))

-----------------------------------------------------------------------------
(* src/scraper.py: extract_page_content *)

\* line 210
removed_tags == {"script", "style", "nav", "header", "footer"}

\* lines 214-221
content_selectors ==
    <<Class("content"), Class("main-content"), Class("ordinance-content"),
      Class("section-content"), Role("main"), Tag("main")>>

\* line 236: the terms that mark navigation boilerplate
skip_terms == <<
    <<"m", "u", "n", "i", "c", "o", "d", "e">>,
    <<"n", "e", "x", "t">>,
    <<"s", "e", "a", "r", "c", "h">>,
    <<"n", "a", "v", "i", "g", "a", "t", "i", "o", "n">> >>

\* a variant of lines 225-230 that accepts a container of any length
ContainerBy_AnyLength(soup, selector) ==
    LET content_container == select_one(soup, selector)
    IN  IF IsNone(content_container) THEN None
        ELSE Some(get_text(NodeAt(soup, Get(content_container)), <<"\n">>))

\* lines 225-230 for one selector: the text of the first matching element,
\* its texts joined by line breaks, if it has more than 100 characters
ContainerBy(soup, selector) ==
    LET content_container == select_one(soup, selector)
    IN  IF IsNone(content_container) THEN None
        ELSE LET text == get_text(NodeAt(soup, Get(content_container)), <<"\n">>)
             IN  IF Len(text) > 100 THEN Some(text) ELSE None

\* lines 233-238: the texts of the p and div elements that have a .string,
\* more than 50 characters and none of the skip terms
FallbackParts(soup) ==
    LET found == SelectSeq(find_all(soup, {"p", "div"}),
                           LAMBDA p : ~IsNone(StringOf(NodeAt(soup, p))))
        texts == [k \in 1..Len(found) |-> get_text(NodeAt(soup, found[k]), <<>>)]
    IN  SelectSeq(texts, LAMBDA text :
            /\ Len(text) > 50
            /\ \A k \in 1..Len(skip_terms) : ~Contains(skip_terms[k], lower(text)))

\* the characters of a text at the places that satisfy Keep, in order
KeepPlaces(text, Keep(_)) ==
    LET kept == SelectSeq([k \in 1..Len(text) |-> k], Keep)
    IN  [j \in 1..Len(kept) |-> text[kept[j]]]

\* line 244, re.sub(r'\n\s*\n', '\n\n', content): where two or more line
\* breaks stand in one run of whitespace, everything from the first to the
\* last of them is replaced by two line breaks; that is, what stands
\* between the first and the last line break of the run goes
sub_blank_lines(text) ==
    LET AllBlank(p, q) == \A j \in p..q : text[j] \in Whitespace
        Between(k) ==
            /\ text[k] \in Whitespace
            /\ \E a \in 1..(k - 1) : text[a] = "\n" /\ AllBlank(a, k)
            /\ \E b \in (k + 1)..Len(text) : text[b] = "\n" /\ AllBlank(k, b)
    IN  KeepPlaces(text, LAMBDA k : ~Between(k))

\* line 245, re.sub(r' +', ' ', content): of a run of blanks the first stays
sub_blank_runs(text) ==
    KeepPlaces(text, LAMBDA k : ~(text[k] = " " /\ k > 1 /\ text[k - 1] = " "))

\* lines 241-246
clean_content(content_parts) ==
    strip(sub_blank_runs(sub_blank_lines(Join(<<"\n", "\n">>, content_parts))))

\* lines 224-248, on the tree that lines 210-211 have left
extract_page_content(soup) ==
    LET hits == {k \in 1..Len(content_selectors) :
                    ~IsNone(ContainerBy(soup, content_selectors[k]))}
        content_parts ==
            IF hits # {}
            THEN <<Get(ContainerBy(soup, content_selectors[Least(hits)]))>>
            ELSE FallbackParts(soup)
    IN  IF content_parts # <<>> THEN clean_content(content_parts) ELSE <<>>

-----------------------------------------------------------------------------
(* src/scraper.py: extract_sections and extract_section_content *)

Digits == {"0", "1", "2", "3", "4", "5", "6", "7", "8", "9"}
\* the characters [\d-]
NumberChars == Digits \cup {"-"}

\* the word stands in the text at place p
StartsAt(text, p, word) ==
    /\ p + Len(word) - 1 <= Len(text)
    /\ \A j \in 1..Len(word) : text[p + j - 1] = word[j]

\* the first place from p on that does not hold a character of the set,
\* Len(text) + 1 when there is none
SkipOver(text, p, set) ==
    Least({q \in p..(Len(text) + 1) : q > Len(text) \/ text[q] \notin set})

\* re.search(r'Sec\.\s*[\d-]+\.', text)
SearchSec(text) ==
    \E p \in 1..Len(text) :
        /\ StartsAt(text, p, <<"S", "e", "c", ".">>)
        /\ LET q == SkipOver(text, p + 4, Whitespace)
               r == SkipOver(text, q, NumberChars)
           IN  r > q /\ r <= Len(text) /\ text[r] = "."

\* re.search(r'Section\s+[\d-]+', text)
SearchSection(text) ==
    \E p \in 1..Len(text) :
        /\ StartsAt(text, p, <<"S", "e", "c", "t", "i", "o", "n">>)
        /\ LET q == SkipOver(text, p + 7, Whitespace)
           IN  q > p + 7 /\ q <= Len(text) /\ text[q] \in NumberChars

\* re.search(r'§\s*[\d-]+', text)
SearchSign(text) ==
    \E p \in 1..Len(text) :
        /\ text[p] = "§"
        /\ LET q == SkipOver(text, p + 1, Whitespace)
           IN  q <= Len(text) /\ text[q] \in NumberChars

\* re.search(r'\d+-\d+', text)
SearchRange(text) ==
    \E q \in 2..(Len(text) - 1) :
        text[q] = "-" /\ text[q - 1] \in Digits /\ text[q + 1] \in Digits

\* lines 256-261, 268-269: one of section_patterns is found in the text
LooksLikeHeader(text) ==
    SearchSec(text) \/ SearchSection(text) \/ SearchSign(text)
        \/ SearchRange(text)

RECURSIVE CollectFrom(_, _, _)
\* lines 285-295: the loop over the siblings from the k-th child of the
\* parent on, content_parts being what has been collected. A text node has
\* get_text too, which gives the node's own text; an empty text node is
\* false and ends the loop
CollectFrom(parent, k, content_parts) ==
    IF \/ k > Len(parent.kids)
       \/ Len(content_parts) >= 10
       \/ (~IsElement(parent.kids[k]) /\ parent.kids[k].text = <<>>)
    THEN content_parts
    ELSE LET text == get_text(parent.kids[k], <<>>)
             parts == IF Len(text) > 20 THEN Append(content_parts, text)
                      ELSE content_parts
         IN  IF SearchSec(text) \/ SearchSection(text) THEN parts
             ELSE CollectFrom(parent, k + 1, parts)

\* extract_section_content(header_element), the header given by its place
extract_section_content(soup, path) ==
    LET parent == NodeAt(soup, SubSeq(path, 1, Len(path) - 1))
    IN  Join(<<"\n", "\n">>, CollectFrom(parent, Last(path) + 1, <<>>))

\* extract_sections: None, or the list of the sections found
extract_sections(soup) ==
    LET headers == find_all(soup, {"h1", "h2", "h3", "h4", "p", "div"})
        Body(path) ==
            LET text == get_text(NodeAt(soup, path), <<>>)
                section_content == extract_section_content(soup, path)
            IN  IF LooksLikeHeader(text) /\ section_content # <<>>
                THEN << [title |-> text, content |-> section_content] >>
                ELSE <<>>
        sections == Concat([k \in 1..Len(headers) |-> Body(headers[k])])
    IN  IF sections # <<>> THEN Some(sections) ELSE None

-----------------------------------------------------------------------------
(* src/scraper.py: the pages and the extraction of lines 154-177 *)

\* 'Sec. 18-1. Dogs must be leashed in public parks.'
Text_sec_18_1 ==
    <<"S", "e", "c", ".", " ", "1", "8", "-", "1", ".", " ", "D", "o", "g",
      "s", " ", "m", "u", "s", "t", " ", "b", "e", " ", "l", "e", "a", "s",
      "h", "e", "d", " ", "i", "n", " ", "p", "u", "b", "l", "i", "c", " ",
      "p", "a", "r", "k", "s", ".">>

\* 'Violation is a misdemeanor.'
Text_violation ==
    <<"V", "i", "o", "l", "a", "t", "i", "o", "n", " ", "i", "s", " ", "a",
      " ", "m", "i", "s", "d", "e", "m", "e", "a", "n", "o", "r", ".">>

\* 'No owner shall permit a dog to run at large within the county.'
Text_at_large ==
    <<"N", "o", " ", "o", "w", "n", "e", "r", " ", "s", "h", "a", "l", "l",
      " ", "p", "e", "r", "m", "i", "t", " ", "a", " ", "d", "o", "g", " ",
      "t", "o", " ", "r", "u", "n", " ", "a", "t", " ", "l", "a", "r", "g",
      "e", " ", "w", "i", "t", "h", "i", "n", " ", "t", "h", "e", " ", "c",
      "o", "u", "n", "t", "y", ".">>

\* 'Each violation is punished by a fine set by the magistrate court.'
Text_fine ==
    <<"E", "a", "c", "h", " ", "v", "i", "o", "l", "a", "t", "i", "o", "n",
      " ", "i", "s", " ", "p", "u", "n", "i", "s", "h", "e", "d", " ", "b",
      "y", " ", "a", " ", "f", "i", "n", "e", " ", "s", "e", "t", " ", "b",
      "y", " ", "t", "h", "e", " ", "m", "a", "g", "i", "s", "t", "r", "a",
      "t", "e", " ", "c", "o", "u", "r", "t", ".">>

\* 'Municode Library'
Text_library ==
    <<"M", "u", "n", "i", "c", "o", "d", "e", " ", "L", "i", "b", "r", "a",
      "r", "y">>

\* 'Sec. 1-1. Navigation and search of the code of ordinances.'
Text_sec_1_1 ==
    <<"S", "e", "c", ".", " ", "1", "-", "1", ".", " ", "N", "a", "v", "i",
      "g", "a", "t", "i", "o", "n", " ", "a", "n", "d", " ", "s", "e", "a",
      "r", "c", "h", " ", "o", "f", " ", "t", "h", "e", " ", "c", "o", "d",
      "e", " ", "o", "f", " ", "o", "r", "d", "i", "n", "a", "n", "c", "e",
      "s", ".">>

\* '\n  Chapter 18 '
Text_chapter_18 ==
    <<"\n", " ", " ", "C", "h", "a", "p", "t", "e", "r", " ", "1", "8", " ">>

\* '  ANIMALS\n'
Text_animals ==
    <<" ", " ", "A", "N", "I", "M", "A", "L", "S", "\n">>

\* 'TITLE 1 - ADMINISTRATION'
Text_title_1 ==
    <<"T", "I", "T", "L", "E", " ", "1", " ", "-", " ", "A", "D", "M", "I",
      "N", "I", "S", "T", "R", "A", "T", "I", "O", "N">>

\* 'Code\n\n \n\n\nlaws'
Text_code_laws ==
    <<"C", "o", "d", "e", "\n", "\n", " ", "\n", "\n", "\n", "l", "a", "w",
      "s">>

\* 'Section 18-2 '
Text_section_18_2 ==
    <<"S", "e", "c", "t", "i", "o", "n", " ", "1", "8", "-", "2", " ">>

\* 'Sec. 18-3. Restraint'
Text_restraint ==
    <<"S", "e", "c", ".", " ", "1", "8", "-", "3", ".", " ", "R", "e", "s",
      "t", "r", "a", "i", "n", "t">>

\* 'Sec. 18-3. Restraint.'
Text_sec_18_3 ==
    <<"S", "e", "c", ".", " ", "1", "8", "-", "3", ".", " ", "R", "e", "s",
      "t", "r", "a", "i", "n", "t", ".">>

\* 'Section 18-4'
Text_section_18_4 ==
    <<"S", "e", "c", "t", "i", "o", "n", " ", "1", "8", "-", "4">>

\* 'Rockdale County, GA'
Text_county_ga ==
    <<"R", "o", "c", "k", "d", "a", "l", "e", " ", "C", "o", "u", "n", "t",
      "y", ",", " ", "G", "A">>

\* 'Rockdale County'
Text_county ==
    <<"R", "o", "c", "k", "d", "a", "l", "e", " ", "C", "o", "u", "n", "t",
      "y">>

\* 'Search the code'
Text_search ==
    <<"S", "e", "a", "r", "c", "h", " ", "t", "h", "e", " ", "c", "o", "d",
      "e">>

\* 'Chapter 42'
Text_chapter_42 ==
    <<"C", "h", "a", "p", "t", "e", "r", " ", "4", "2">>

\* 'Page title'
Text_page_title ==
    <<"P", "a", "g", "e", " ", "t", "i", "t", "l", "e">>

\* 'MUNICODE '
Text_municode ==
    <<"M", "U", "N", "I", "C", "O", "D", "E", " ">>

\* ' § 4-2 applies.'
Text_sign_4_2 ==
    <<" ", "§", " ", "4", "-", "2", " ", "a", "p", "p", "l", "i", "e", "s",
      ".">>

\* 'Ord. 2020'
Text_ord_2020 ==
    <<"O", "r", "d", ".", " ", "2", "0", "2", "0">>

\* 'var a = 1;'
Text_script ==
    <<"v", "a", "r", " ", "a", " ", "=", " ", "1", ";">>

\* 'p { }'
Text_style ==
    <<"p", " ", "{", " ", "}">>

\* 'Next: '
Text_next ==
    <<"N", "e", "x", "t", ":", " ">>

\* 'Leash'
Text_leash ==
    <<"L", "e", "a", "s", "h">>

\* ' \n\t\n  '
Text_gap ==
    <<" ", "\n", "\t", "\n", " ", " ">>

\* '\n \n\n'
Text_blank_lines ==
    <<"\n", " ", "\n", "\n">>

\* the fragment of the section extraction example:
\* <div class="content"><p>Sec. 18-1. Dogs must be leashed in public
\* parks.</p><p>Violation is a misdemeanor.</p></div>
Page_fragment ==
    Element("[document]", {}, "",
      <<
         Element("div", {"content"}, "",
           <<
              Leaf("p", {}, Text_sec_18_1),
              Leaf("p", {}, Text_violation) >>) >>)

\* a page with a head, a navigation bar, a heading and a .content container
\* of more than 100 characters, with blank lines and double blanks in it
Page_chapter ==
    Element("[document]", {}, "",
      <<
         Element("html", {}, "",
           <<
              Element("head", {}, "",
                <<
                   Leaf("title", {}, Text_library),
                   Leaf("script", {}, Text_script) >>),
              Element("body", {}, "",
                <<
                   Element("nav", {}, "",
                     <<
                        Element("div", {"content"}, "",
                          <<
                             Leaf("p", {}, Text_sec_1_1) >>) >>),
                   Element("h1", {}, "",
                     <<
                        TextNode(Text_chapter_18),
                        Leaf("b", {}, <<"-">>),
                        TextNode(Text_animals) >>),
                   Element("div", {"content", "wide"}, "",
                     <<
                        Leaf("p", {}, Text_sec_18_1),
                        TextNode(Text_blank_lines),
                        Leaf("p", {}, Text_at_large \o Text_gap \o Text_fine),
                        Leaf("p", {}, <<" ">>) >>),
                   Element("footer", {}, "",
                     <<
                        Leaf("p", {}, Text_county) >>) >>) >>) >>)

\* the first .content element is short, a second one is long, and so is
\* the main element; the h1 and .page-title texts have 10 characters
Page_second ==
    Element("[document]", {}, "",
      <<
         Leaf("h1", {}, Text_chapter_42),
         Leaf("div", {"page-title"}, Text_page_title),
         Leaf("div", {"section-title"}, Text_title_1),
         Element("div", {"content"}, "",
           <<
              Leaf("p", {}, Text_violation) >>),
         Element("div", {"content"}, "",
           <<
              Leaf("p", {}, Text_at_large),
              Leaf("p", {}, Text_fine) >>),
         Element("main", {}, "",
           <<
              Leaf("p", {}, Text_fine),
              Leaf("p", {}, Text_at_large) >>) >>)

\* no container: a division around one paragraph, a paragraph with "Next"
\* in it, a paragraph of mixed content, a short one, a short role=main
Page_loose ==
    Element("[document]", {}, "",
      <<
         Leaf("title", {}, Text_code_laws),
         Element("div", {}, "",
           <<
              Leaf("p", {}, Text_at_large) >>),
         Leaf("p", {}, Text_next \o Text_fine),
         Element("p", {}, "",
           <<
              TextNode(Text_section_18_2),
              Leaf("b", {}, Text_leash),
              TextNode(<<" ">> \o Text_at_large) >>),
         Leaf("p", {}, Text_violation),
         Element("div", {}, "main",
           <<
              TextNode(Text_fine) >>) >>)

\* nothing to extract: no heading, no matching class, an empty title
\* element
Page_bare ==
    Element("[document]", {}, "",
      <<
         Element("title", {}, "", <<>>),
         Leaf("p", {}, Text_violation),
         Element("div", {}, "",
           <<
              Leaf("span", {}, Text_search) >>) >>)

\* an empty h1, a short .ordinance-title, a title element, and an
\* .ordinance-content container
Page_ordinance ==
    Element("[document]", {}, "",
      <<
         Element("h1", {}, "", <<>>),
         Leaf("span", {"ordinance-title", "x"}, Text_ord_2020),
         Leaf("title", {}, Text_county_ga),
         Element("div", {"ordinance-content"}, "",
           <<
              Leaf("p", {}, Text_at_large \o <<" ">> \o Text_fine) >>) >>)

\* the fallback: a blocked division and a kept paragraph
Page_blocked ==
    Element("[document]", {}, "",
      <<
         Leaf("div", {}, Text_municode \o Text_at_large),
         Leaf("p", {}, Text_fine \o Text_sign_4_2),
         Leaf("style", {}, Text_style) >>)

\* two headings, each followed by its paragraphs
Page_section ==
    Element("[document]", {}, "",
      <<
         Leaf("title", {}, Text_restraint),
         Element("div", {"section-content"}, "",
           <<
              Leaf("h2", {}, Text_sec_18_3),
              Leaf("p", {}, Text_at_large),
              Leaf("p", {}, Text_fine),
              Leaf("h2", {}, Text_section_18_4),
              Leaf("p", {}, Text_fine) >>) >>)

\* a heading followed by paragraphs of which the second and the third
\* look like section headers themselves
Page_headers ==
    Element("[document]", {}, "",
      <<
         Element("div", {"section-content"}, "",
           <<
              Leaf("h3", {}, Text_section_18_4),
              Leaf("p", {}, Text_at_large),
              Leaf("p", {}, Text_fine \o Text_sign_4_2),
              Leaf("p", {}, Text_sec_18_1),
              Leaf("p", {}, Text_violation) >>) >>)

\* a heading followed by a short paragraph and eleven long ones
Page_long ==
    Element("[document]", {}, "",
      <<
         Element("div", {}, "",
           <<
              Leaf("h2", {}, Text_sec_18_3),
              Leaf("p", {}, Text_county),
              Leaf("p", {}, Text_at_large),
              Leaf("p", {}, Text_at_large),
              Leaf("p", {}, Text_at_large),
              Leaf("p", {}, Text_at_large),
              Leaf("p", {}, Text_at_large),
              Leaf("p", {}, Text_at_large),
              Leaf("p", {}, Text_at_large),
              Leaf("p", {}, Text_at_large),
              Leaf("p", {}, Text_at_large),
              Leaf("p", {}, Text_at_large),
              Leaf("p", {}, Text_fine) >>) >>)

PagePool == {Page_fragment, Page_chapter, Page_second, Page_loose, Page_bare,
             Page_ordinance, Page_blocked, Page_section, Page_headers,
             Page_long}

\* the URLs a page is asked for with: one nodeId, none, two
UrlPool == {
    MakeUrl("SPAGEOR_CH18AN"),
    [path |-> base_url, query |-> << <<"showChanges", "true">> >>],
    [path |-> base_url, query |-> << <<"nodeId", "SPAGEOR_CH42EN">>,
                                    <<"nodeId", "SPAGEOR_CH18AN">> >>] }

\* lines 154-156: the page source has been parsed
InitExtract ==
    /\ IdleScraper
    /\ IdleDedup
    /\ IdleChunk
    /\ IdleLoad
    /\ IdleWait
    /\ IdleCaller
    /\ IdleUpload
    /\ page_source \in PagePool
    /\ page_soup = page_source
    /\ page_url \in UrlPool
    /\ page_title = None
    /\ page_text = None
    /\ page_sections = None
    /\ page_node_id = None
    /\ epc = "title"

\* line 159
ExtractTitle ==
    /\ epc = "title"
    /\ page_title' = Some(extract_page_title(page_soup))
    /\ epc' = "content"
    /\ UNCHANGED <<page_source, page_soup, page_url, page_text, page_sections,
                   page_node_id>>
    /\ UNCHANGED other_than_extract

\* line 162: extract_page_content first takes the removed elements out of
\* the tree, for good
ExtractContent ==
    /\ epc = "content"
    /\ page_soup' = decompose(page_soup, removed_tags)
    /\ page_text' = Some(extract_page_content(page_soup'))
    /\ epc' = "sections"
    /\ UNCHANGED <<page_source, page_url, page_title, page_sections,
                   page_node_id>>
    /\ UNCHANGED other_than_extract

\* line 165
ExtractSections ==
    /\ epc = "sections"
    /\ page_sections' = Some(extract_sections(page_soup))
    /\ epc' = "node_id"
    /\ UNCHANGED <<page_source, page_soup, page_url, page_title, page_text,
                   page_node_id>>
    /\ UNCHANGED other_than_extract

\* lines 168-176
ExtractNodeId ==
    /\ epc = "node_id"
    /\ page_node_id' = Some(extract_node_id(page_url))
    /\ epc' = "returned"
    /\ UNCHANGED <<page_source, page_soup, page_url, page_title, page_text,
                   page_sections>>
    /\ UNCHANGED other_than_extract

NextExtract ==
    \/ ExtractTitle
    \/ ExtractContent
    \/ ExtractSections
    \/ ExtractNodeId

SpecExtract == InitExtract /\ [][NextExtract]_vars

-----------------------------------------------------------------------------
(* src/scraper.py: discover_additional_sections called on a scraper *)

\* the identifiers a caller asks candidates for: those of the built-in
\* catalog, one that ends in a suffix already, and the empty one
AnchorIds ==
    {default_known_chapters[k][1] : k \in 1..Len(default_known_chapters)}
        \cup {"SPAGEOR_CH18AN_S1", ""}

\* a variant of lines 310, 322-323 in which discovered_urls is kept between
\* the calls: a call returns the candidates of the calls before it too
DiscoverCall_KeepsList(base_node_id) ==
    /\ pc = "main"
    /\ Len(discover_log) < MaxCalls
    /\ discover_log' = Append(discover_log,
          [base_node_id |-> base_node_id,
           discovered_urls |->
               (IF discover_log = <<>> THEN <<>>
                ELSE Last(discover_log).discovered_urls)
                   \o discover_additional_sections(base_node_id)])
    /\ UNCHANGED run_results
    /\ UNCHANGED scraper_vars
    /\ UNCHANGED other_than_caller

\* lines 308-325: a call on the constructed scraper. The method assigns to
\* locals only and reads self.base_url
DiscoverCall(base_node_id) ==
    /\ pc = "main"
    /\ Len(discover_log) < MaxCalls
    /\ discover_log' = Append(discover_log,
          [base_node_id |-> base_node_id,
           discovered_urls |-> discover_additional_sections(base_node_id)])
    /\ UNCHANGED run_results
    /\ UNCHANGED scraper_vars
    /\ UNCHANGED other_than_caller

NextDiscover == \E base_node_id \in AnchorIds : DiscoverCall(base_node_id)

SpecDiscover == Init /\ [][NextDiscover]_vars

-----------------------------------------------------------------------------
(* src/scraper.py: scrape_known_chapters called again on the same scraper *)

\* a label that holds "TITLE <n>" and, after it, "Chapter <n>"
titled_chapter ==
    <<"SPBPLDE_TIT1AD_CH18",
      <<"TITLE", " ", "1", " ", "-", " ", "Chapter", " ", "18">> >>

\* the catalogs of the scrapers that are run more than once: one entry
\* each, with a "Chapter" label, a "TITLE" label, a label with neither and
\* a label with both (known_chapters is a plain attribute)
RunCatalogs == {
    <<default_known_chapters[1]>>,
    <<default_known_chapters[4]>>,
    <<default_known_chapters[7]>>,
    <<titled_chapter>> }

\* the state after RockdaleMunicodeScraper() (lines 53-74) and the
\* assignment of known_chapters, the caller about to call
\* scrape_known_chapters
InitRerun ==
    /\ driver = "None"
    /\ ordinances = <<>>
    /\ failed_urls = <<>>
    /\ retry_count = 3
    /\ delay_between_requests = 3
    /\ known_chapters \in RunCatalogs
    /\ pc = "scrape_known_chapters"
    /\ all_urls_to_scrape = <<>>
    /\ i = 1
    /\ content_data = None
    /\ page_outcome = "none"
    /\ returned = None
    /\ ending = "running"
    /\ raised_in = "nowhere"
    /\ browser = "absent"
    /\ files = NoFiles
    /\ events = <<>>
    /\ IdleDedup
    /\ IdleChunk
    /\ IdleLoad
    /\ IdleWait
    /\ IdleExtract
    /\ IdleCaller
    /\ IdleUpload

\* scrape_known_chapters has returned to its caller, who keeps the value
\* and calls the method again on the same object
CallAgain ==
    /\ pc = "save_to_json"
    /\ ~IsNone(returned)
    /\ Len(run_results) + 1 < MaxRuns
    /\ run_results' = Append(run_results, Get(returned))
    /\ returned' = None
    /\ pc' = "scrape_known_chapters"
    /\ UNCHANGED <<driver, ordinances, failed_urls, retry_count,
                   delay_between_requests, known_chapters,
                   all_urls_to_scrape, i, content_data, page_outcome, ending,
                   raised_in, browser, files, events>>
    /\ UNCHANGED discover_log
    /\ UNCHANGED <<dedup_vars, chunk_vars, load_vars, wait_vars, extract_vars,
                   upload_vars>>

NextRerun ==
    \/ \E outcome \in SetupOutcomes : ScrapeEnter(outcome)
    \/ FetchBegin
    \/ \E outcome \in PageOutcomes : FetchEnd(outcome)
    \/ RecordResult
    \/ SleepEnd
    \/ ScrapeReturn
    \/ CallAgain

SpecRerun == InitRerun /\ [][NextRerun]_vars

-----------------------------------------------------------------------------
(* src/start2.py: upload_with_progress and the end of main *)

\* chunks[a:b] for 0-based a and b
Slice(seq, a, b) == SubSeq(seq, a + 1, Min(b, Len(seq)))

\* the chunk lists of the calls: chunk k of a list is the number k
UploadInputs == {[k \in 1..n |-> k] : n \in 0..MaxUploadChunks}

\* the documents table before the call: empty, or with a row of an
\* earlier upload, written 0
TablesBefore == {<<>>, <<0>>}

\* main has reached line 293 with the deduplicated chunks; batch_size is a
\* parameter of upload_with_progress
InitUpload ==
    /\ IdleScraper
    /\ IdleDedup
    /\ IdleChunk
    /\ IdleLoad
    /\ IdleWait
    /\ IdleExtract
    /\ IdleCaller
    /\ upc = "delete"
    /\ upload_chunks \in UploadInputs
    /\ batch_size \in 1..MaxBatchSize
    /\ table \in TablesBefore
    /\ successful_uploads = 0
    /\ upload_i = 0
    /\ upload_log = <<>>
    /\ uploaded_count = None

UploadLog(e) == upload_log' = Append(upload_log, e)

\* a variant of lines 194-203 that clears the table only when there is a
\* chunk to upload
UploadClear_OnlyWithChunks(ok) ==
    /\ upc = "delete"
    /\ IF upload_chunks = <<>>
       THEN UNCHANGED <<table, upload_log>>
       ELSE /\ table' = IF ok THEN <<>> ELSE table
            /\ UploadLog([ev |-> "delete", ok |-> ok,
                          removed |-> IF ok THEN table ELSE <<>>])
    /\ upc' = "check"
    /\ UNCHANGED <<upload_chunks, batch_size, successful_uploads, upload_i,
                   uploaded_count>>
    /\ UNCHANGED other_than_upload

\* lines 194-200: delete().gt('id', 0).execute() removes the rows, or
\* raises, which the except clause turns into a printed warning
UploadClear(ok) ==
    /\ upc = "delete"
    /\ table' = IF ok THEN <<>> ELSE table
    /\ UploadLog([ev |-> "delete", ok |-> ok,
                  removed |-> IF ok THEN table ELSE <<>>])
    /\ upc' = "check"
    /\ UNCHANGED <<upload_chunks, batch_size, successful_uploads, upload_i,
                   uploaded_count>>
    /\ UNCHANGED other_than_upload

\* lines 202-209: the counters, and the return of 0 for an empty list
UploadCheck ==
    /\ upc = "check"
    /\ successful_uploads' = 0
    /\ IF upload_chunks = <<>>
       THEN /\ uploaded_count' = Some(0)
            /\ upc' = "report"
       ELSE /\ upc' = "first_batch"
            /\ UNCHANGED uploaded_count
    /\ UNCHANGED <<upload_chunks, batch_size, table, upload_i, upload_log>>
    /\ UNCHANGED other_than_upload

\* a variant of lines 211-221 without the except clause of lines 233-234
UploadFirstBatch_Propagates(ok) ==
    /\ upc = "first_batch"
    /\ LET batch == Slice(upload_chunks, 0, batch_size)
       IN  /\ UploadLog([ev |-> "upload", batch |-> batch, ok |-> ok])
           /\ IF ok
              THEN /\ table' = table \o batch
                   /\ successful_uploads' = successful_uploads + Len(batch)
                   /\ upload_i' = batch_size
                   /\ upc' = "loop"
              ELSE /\ upc' = "raised"
                   /\ UNCHANGED <<table, successful_uploads, upload_i>>
    /\ UNCHANGED <<upload_chunks, batch_size, uploaded_count>>
    /\ UNCHANGED other_than_upload

\* lines 211-221: SupabaseVectorStore.from_documents stores the first
\* batch, or raises and stores nothing, which leads to line 233
UploadFirstBatch(ok) ==
    /\ upc = "first_batch"
    /\ LET batch == Slice(upload_chunks, 0, batch_size)
       IN  /\ UploadLog([ev |-> "upload", batch |-> batch, ok |-> ok])
           /\ IF ok
              THEN /\ table' = table \o batch
                   /\ successful_uploads' = successful_uploads + Len(batch)
                   /\ upload_i' = batch_size
                   /\ upc' = "loop"
              ELSE /\ upc' = "return"
                   /\ UNCHANGED <<table, successful_uploads, upload_i>>
    /\ UNCHANGED <<upload_chunks, batch_size, uploaded_count>>
    /\ UNCHANGED other_than_upload

\* a variant of lines 224-231 in which the try statement is inside the
\* loop: a failed batch is passed over and the next one is uploaded
UploadNextBatch_PassesOver(ok) ==
    /\ upc = "loop"
    /\ upload_i < Len(upload_chunks)
    /\ LET batch == Slice(upload_chunks, upload_i, upload_i + batch_size)
       IN  /\ UploadLog([ev |-> "upload", batch |-> batch, ok |-> ok])
           /\ table' = IF ok THEN table \o batch ELSE table
           /\ successful_uploads' =
                 IF ok THEN successful_uploads + Len(batch)
                 ELSE successful_uploads
           /\ upc' = "sleep"
    /\ UNCHANGED <<upload_chunks, batch_size, upload_i, uploaded_count>>
    /\ UNCHANGED other_than_upload

\* lines 224-230: vector_store.add_documents stores the batch at offset i,
\* or raises and stores nothing, which leaves the loop for line 233
UploadNextBatch(ok) ==
    /\ upc = "loop"
    /\ upload_i < Len(upload_chunks)
    /\ LET batch == Slice(upload_chunks, upload_i, upload_i + batch_size)
       IN  /\ UploadLog([ev |-> "upload", batch |-> batch, ok |-> ok])
           /\ IF ok
              THEN /\ table' = table \o batch
                   /\ successful_uploads' = successful_uploads + Len(batch)
                   /\ upc' = "sleep"
              ELSE /\ upc' = "return"
                   /\ UNCHANGED <<table, successful_uploads>>
    /\ UNCHANGED <<upload_chunks, batch_size, upload_i, uploaded_count>>
    /\ UNCHANGED other_than_upload

\* line 231: time.sleep(0.5) after a batch of the loop, then the next
\* offset of range(batch_size, len(chunks), batch_size)
UploadSleep ==
    /\ upc = "sleep"
    /\ UploadLog([ev |-> "sleep"])
    /\ upload_i' = upload_i + batch_size
    /\ upc' = "loop"
    /\ UNCHANGED <<upload_chunks, batch_size, table, successful_uploads,
                   uploaded_count>>
    /\ UNCHANGED other_than_upload

\* lines 233-236: after the loop, or after the except clause has printed
\* the error, successful_uploads is returned to main (line 296)
UploadReturn ==
    /\ \/ upc = "return"
       \/ upc = "loop" /\ upload_i >= Len(upload_chunks)
    /\ uploaded_count' = Some(successful_uploads)
    /\ upc' = "report"
    /\ UNCHANGED <<upload_chunks, batch_size, table, successful_uploads,
                   upload_i, upload_log>>
    /\ UNCHANGED other_than_upload

\* lines 303-315: main prints the totals and tests the retrieval when
\* something was uploaded
MainReport ==
    /\ upc = "report"
    /\ upc' = IF Get(uploaded_count) > 0 THEN "test_retrieval" ELSE "done"
    /\ UNCHANGED <<upload_chunks, batch_size, table, successful_uploads,
                   upload_i, upload_log, uploaded_count>>
    /\ UNCHANGED other_than_upload

\* lines 309-317: test_retrieval catches what a query raises; main ends
MainTestRetrieval ==
    /\ upc = "test_retrieval"
    /\ upc' = "done"
    /\ UNCHANGED <<upload_chunks, batch_size, table, successful_uploads,
                   upload_i, upload_log, uploaded_count>>
    /\ UNCHANGED other_than_upload

NextUpload ==
    \/ \E ok \in BOOLEAN : UploadClear(ok)
    \/ UploadCheck
    \/ \E ok \in BOOLEAN : UploadFirstBatch(ok)
    \/ \E ok \in BOOLEAN : UploadNextBatch(ok)
    \/ UploadSleep
    \/ UploadReturn
    \/ MainReport
    \/ MainTestRetrieval

SpecUpload == InitUpload /\ [][NextUpload]_vars

\* the interpreter keeps running main, and a call to the store returns or
\* raises
FairSpecUpload == SpecUpload /\ WF_vars(NextUpload)

-----------------------------------------------------------------------------
(* Properties of the scrape run *)

EventsOf(kind) == SelectSeq(events, LAMBDA e : e.ev = kind)
Gets == EventsOf("get")
Gots == EventsOf("got")
FailedGots == SelectSeq(events, LAMBDA e : e.ev = "got" /\ ~e.ok)
GoodGots == SelectSeq(events, LAMBDA e : e.ev = "got" /\ e.ok)
Writes == [k \in 1..Len(EventsOf("write")) |-> EventsOf("write")[k].file]
Urls(s) == [k \in 1..Len(s) |-> s[k].url]
SetupFailed == \E k \in 1..Len(events) :
                  events[k].ev = "setup_driver" /\ events[k].outcome # "ok"
\* scrape_known_chapters has returned
ScrapeReturned == ~IsNone(returned)
\* the result of the last fetch has been entered in one of the two lists
Recorded == pc # "branch" /\ raised_in # "branch"

\* C1: at the end of a scrape run over N target URLs of which exactly k
\* yielded empty or failed extraction, the failure list has exactly k
\* entries and the record list exactly N - k, wherever the k failures fell.
C1_FailureAccumulation ==
    ScrapeReturned =>
        /\ Len(Gots) = Len(all_urls_to_scrape)
        /\ Len(failed_urls) = Len(FailedGots)
        /\ Len(ordinances) = Len(all_urls_to_scrape) - Len(FailedGots)

\* a completed run of four targets whose first and third fetch failed
C1_Witness ==
    /\ pc = "exit" /\ ending = "completed"
    /\ Len(Gots) = 4
    /\ ~Gots[1].ok /\ Gots[2].ok /\ ~Gots[3].ok /\ Gots[4].ok
    /\ page_outcome = "content"
    /\ Len(failed_urls) = 2 /\ Len(ordinances) = 2

\* C2: a page that raises or yields empty content makes nothing propagate
\* out of the scrape run: a raised error gives a null result, the URL goes
\* to the failure list, no record is created for it, and the run goes on
\* to the next target URL.
C2_PageFailureIsContained ==
    /\ ending = "Exception" => raised_in \in PersistPcs
    /\ (pc = "branch" /\ page_outcome = "raises") => IsNone(content_data)
    /\ Recorded => /\ failed_urls = Urls(FailedGots)
                   /\ Urls(ordinances) = Urls(GoodGots)
    /\ (ScrapeReturned /\ ~SetupFailed)
          => Urls(Gots) = Urls(all_urls_to_scrape)

\* the second page raised after the first had failed: both URLs are in the
\* failure list, there is no record, and the third fetch is under way
C2_Witness ==
    /\ pc = "fetching"
    /\ Len(Gets) = 3 /\ Len(Gots) = 2
    /\ page_outcome = "raises"
    /\ IsNone(content_data)
    /\ ordinances = <<>>
    /\ failed_urls = <<all_urls_to_scrape[1].url, all_urls_to_scrape[2].url>>

\* cleanup was called and has quit the browser if one was started
CleanedUp ==
    /\ Len(EventsOf("cleanup")) = 1
    /\ browser # "absent" => browser = "quit" /\ Len(EventsOf("quit")) = 1

\* C3: a run of the entry point always ends by invoking cleanup, after
\* normal completion, after an unexpected error and after a keyboard
\* interrupt at any point of the run, and cleanup quits the browser driver
\* whenever a driver was created.
C3_CleanupAlwaysRuns == <>(pc = "exit" /\ CleanedUp)

\* a run interrupted during a fetch, the browser quit by cleanup
C3_Witness ==
    /\ pc = "exit" /\ ending = "KeyboardInterrupt"
    /\ raised_in = "fetching"
    /\ CleanedUp /\ browser = "quit"

\* C4: between every two consecutive fetches the earlier fetch has ended
\* and a pause of delay_between_requests has begun and elapsed, whether
\* the earlier fetch gave a record or a failure; no two fetches overlap.
C4_PauseBetweenFetches ==
    \A k \in 1..Len(events) :
        (events[k].ev = "get" /\ \E j \in 1..(k - 1) : events[j].ev = "get")
        => /\ k >= 5
           /\ events[k - 4].ev = "get"
           /\ events[k - 3].ev = "got"
           /\ events[k - 2].ev = "sleep"
           /\ events[k - 2].secs = delay_between_requests
           /\ events[k - 1].ev = "woke"

\* a third fetch under way after a failed and a successful fetch
C4_Witness ==
    /\ pc = "fetching" /\ Len(Gets) = 3
    /\ ~Gots[1].ok /\ Gots[2].ok
    /\ Len(EventsOf("sleep")) = 2

\* C5: every entry of the target URL list is fetched exactly once, in list
\* order, a failed or empty URL never again; the fetches are those of the
\* configured catalog whatever the value of retry_count.
C5_NoRetry ==
    /\ Len(Gets) <= Len(BuildTargets(known_chapters))
    /\ Urls(Gets) = SubSeq(Urls(BuildTargets(known_chapters)), 1, Len(Gets))
    /\ (ScrapeReturned /\ ~SetupFailed)
          => Len(Gets) = Len(BuildTargets(known_chapters))

\* a completed run with a positive retry_count in which fetches failed
C5_Witness ==
    /\ pc = "exit" /\ ending = "completed"
    /\ retry_count = 3
    /\ Len(failed_urls) >= 2
    /\ Len(Gets) = 4

\* the outputs written so far cover exactly the lists as they are
WrittenOutputsAreCurrent ==
    /\ ~IsNone(files.json) => Get(files.json).records = ordinances
    /\ ~IsNone(files.csv)
          => LET rows == Get(files.csv).rows
             IN  /\ Len(rows) = Len(ordinances)
                 /\ \A k \in 1..Len(rows) :
                       /\ rows[k][1] = ordinances[k].chapter
                       /\ rows[k][5] = ordinances[k].content
                       /\ rows[k][6] = ordinances[k].url
    /\ ~IsNone(files.summary)
          => /\ Get(files.summary).total = Len(ordinances)
             /\ Get(files.summary).failed_count = Len(failed_urls)
             /\ Get(files.summary).failed_urls = failed_urls

PersistenceStarted == pc \in PersistPcs \cup {"print_summary"}
                        \/ raised_in \in PersistPcs \cup {"print_summary"}
                        \/ files # NoFiles

\* the statement of C6 as it stands: persistence starts after the last
\* target, then writes the JSON dump, the CSV dump and the summary in this
\* order, each of the lists of the run; an interrupt before the last target
\* leaves nothing written.
C6_Original ==
    /\ PersistenceStarted => i > Len(all_urls_to_scrape)
    /\ pc = "print_summary"
          => /\ Writes = <<"json", "csv", "summary">>
             /\ ~IsNone(files.json) /\ ~IsNone(files.csv)
             /\ ~IsNone(files.summary)
             /\ WrittenOutputsAreCurrent
    /\ (ending = "KeyboardInterrupt"
        /\ raised_in \in {"scrape_known_chapters"} \cup LoopPcs)
          => files = NoFiles

\* C6 (amended): persistence starts after scrape_known_chapters has
\* returned, every target of the list it built being processed; it writes
\* the JSON dump, then the CSV dump only if there is a record, then the
\* summary, each of the lists of the run; an interrupt before the last
\* target leaves nothing written.
C6_PersistAfterLastTarget ==
    /\ PersistenceStarted => (ScrapeReturned /\ i > Len(all_urls_to_scrape))
    /\ LET order == IF ordinances = <<>> THEN <<"json", "summary">>
                     ELSE <<"json", "csv", "summary">>
       IN  \E n \in 0..Len(order) : Writes = SubSeq(order, 1, n)
    /\ WrittenOutputsAreCurrent
    /\ pc = "print_summary"
          => /\ ~IsNone(files.json) /\ ~IsNone(files.summary)
             /\ IsNone(files.csv) <=> ordinances = <<>>
    /\ (ending = "KeyboardInterrupt"
        /\ raised_in \in {"scrape_known_chapters"} \cup LoopPcs)
          => files = NoFiles

\* persistence completed for a run with records and with failures
C6_Witness ==
    /\ pc = "print_summary"
    /\ Len(ordinances) >= 1 /\ Len(failed_urls) >= 2
    /\ Writes = <<"json", "csv", "summary">>
    /\ Get(files.summary).failed_urls = failed_urls

\* C7: when the rendering engine fails to initialize the run is aborted:
\* setup is attempted once, no target URL is fetched, the run returns an
\* empty record list and adds nothing to the record or the failure list.
C7_SetupFailureAborts ==
    SetupFailed =>
        /\ Len(EventsOf("setup_driver")) = 1
        /\ Gets = <<>>
        /\ returned = Some(<<>>)
        /\ ordinances = <<>> /\ failed_urls = <<>>

\* the entry point ended after a setup that failed with a driver created
C7_Witness ==
    /\ pc = "exit" /\ SetupFailed
    /\ driver = "Chrome"
    /\ returned = Some(<<>>)

\* the node ids of a catalog, in catalog order
NodeIds(catalog) == [k \in 1..Len(catalog) |-> catalog[k][1]]

\* no node id of the catalog occurs twice, and none is another node id of
\* the catalog followed by one of the discovery suffixes
DisjointCatalog(catalog) ==
    LET ids == NodeIds(catalog)
    IN  \A a, b \in 1..Len(ids) :
           /\ (a # b => ids[a] # ids[b])
           /\ \A k \in 1..Len(common_suffixes) :
                  ids[a] # ids[b] \o common_suffixes[k]

\* no two records of the result set have the same url
UniqueRecordUrls ==
    \A a, b \in 1..Len(ordinances) :
        a # b => ordinances[a].url # ordinances[b].url

-----------------------------------------------------------------------------
(* Properties of deduplicate_chunks *)

\* the canonical form of a text: lowercased, every whitespace run
\* collapsed to a single space, then trimmed
Canonical(text) == strip(sub_whitespace_runs(lower(text)))

\* the first call of deduplicate_chunks has returned
DedupDone == ~IsNone(dedup_once)
DedupOutput == Get(dedup_once)
\* the place of a passage in the input of the first call
InputPlace(p) == p.metadata.passage
\* the first place of the input whose text has the signature
FirstWith(sig) ==
    CHOOSE k \in 1..Len(dedup_input) :
        /\ signature(dedup_input[k].page_content) = sig
        /\ \A j \in 1..(k - 1) : signature(dedup_input[j].page_content) # sig

\* C8: deduplicate_chunks(deduplicate_chunks(P)) = deduplicate_chunks(P),
\* and deduplicate_chunks(P) is never longer than P.
C8_DedupIdempotent ==
    /\ dpc = "returned_again" => unique_chunks = DedupOutput
    /\ DedupDone => Len(DedupOutput) <= Len(dedup_input)
    /\ Len(unique_chunks) <= Len(chunks)

\* the second call has returned for an input of three passages from which
\* the first call removed one
C8_Witness ==
    /\ dpc = "returned_again"
    /\ Len(dedup_input) = 3
    /\ Len(DedupOutput) = 2
    /\ unique_chunks = DedupOutput

\* C9: two passages are duplicates exactly when their canonical forms are
\* identical: a passage is retained exactly when no earlier passage has
\* its canonical form, so of two passages differing only in letter case
\* and whitespace only the first is retained, and passages of different
\* canonical forms are all retained.
C9_DuplicatesAreCanonicalEquals ==
    DedupDone =>
        \A k \in 1..Len(dedup_input) :
            /\ (\E m \in 1..Len(DedupOutput) : DedupOutput[m] = dedup_input[k])
               <=> ~\E j \in 1..(k - 1) :
                       Canonical(dedup_input[j].page_content)
                         = Canonical(dedup_input[k].page_content)
            /\ \A j \in 1..(k - 1) :
                  (signature(dedup_input[j].page_content)
                     = signature(dedup_input[k].page_content))
                  <=> (Canonical(dedup_input[j].page_content)
                         = Canonical(dedup_input[k].page_content))

\* "a b", then the same words in capitals with longer whitespace runs and
\* whitespace around them, then "ab": the first and the third are retained
C9_Witness ==
    /\ dpc = "returned"
    /\ Len(dedup_input) = 3
    /\ dedup_input[1].page_content = <<"a", " ", "b">>
    /\ dedup_input[2].page_content = <<"\t", "A", " ", " ", "b", " ">>
    /\ dedup_input[3].page_content = <<"a", "b">>
    /\ DedupOutput = <<dedup_input[1], dedup_input[3]>>

\* C10: the output is a subsequence of the input in the original order
\* and holds, for every signature of the input, exactly one passage: the
\* first input passage with that signature, text and metadata unchanged.
C10_FirstOccurrenceWins ==
    DedupDone =>
        /\ \A m \in 1..Len(DedupOutput) :
              /\ InputPlace(DedupOutput[m]) \in 1..Len(dedup_input)
              /\ DedupOutput[m] = dedup_input[InputPlace(DedupOutput[m])]
              /\ \A n \in 1..(m - 1) :
                    InputPlace(DedupOutput[n]) < InputPlace(DedupOutput[m])
        /\ \A k \in 1..Len(dedup_input) :
              LET sig == signature(dedup_input[k].page_content)
                  kept == {m \in 1..Len(DedupOutput) :
                             signature(DedupOutput[m].page_content) = sig}
              IN  /\ Cardinality(kept) = 1
                  /\ \A m \in kept : DedupOutput[m] = dedup_input[FirstWith(sig)]

\* the third passage repeats the signature of the first with another
\* text, and the first is the one in the output
C10_Witness ==
    /\ dpc = "returned"
    /\ Len(dedup_input) = 3
    /\ dedup_input[1].page_content = <<"A">>
    /\ dedup_input[2].page_content = <<"a", "b">>
    /\ dedup_input[3].page_content = <<" ", "a">>
    /\ DedupOutput = <<dedup_input[1], dedup_input[2]>>

-----------------------------------------------------------------------------
(* Properties of create_enhanced_chunks *)

ChunkType(chunk) == chunk.metadata.chunk_type
TypesOf(passages) == [k \in 1..Len(passages) |-> ChunkType(passages[k])]
\* a text without any character that is not whitespace
WhitespaceOnly(text) == \A k \in 1..Len(text) : text[k] \in Whitespace
IsPrefix(s, t) == Len(s) <= Len(t) /\ s = SubSeq(t, 1, Len(s))
\* the document the loop is at, or has just finished a strategy of
CurrentDoc == documents[doc_i]

\* C11: no passage produced by the keyword-focused strategy and no passage
\* produced by the rule-pattern strategy has a text of fewer than 100
\* characters, and none has an empty or whitespace-only text.
C11_StrategyPassagesAreSubstantial ==
    \A k \in 1..Len(all_enhanced_chunks) :
        ChunkType(all_enhanced_chunks[k]) \in {"keyword_focused", "qa_style"}
        => /\ Len(all_enhanced_chunks[k].page_content) >= 100
           /\ ~WhitespaceOnly(all_enhanced_chunks[k].page_content)

\* a finished run that produced a keyword-focused and a rule-pattern passage
C11_Witness ==
    /\ cpc = "returned"
    /\ \E k \in 1..Len(all_enhanced_chunks) :
          ChunkType(all_enhanced_chunks[k]) = "keyword_focused"
    /\ \E k \in 1..Len(all_enhanced_chunks) :
          ChunkType(all_enhanced_chunks[k]) = "qa_style"

\* what C12 says one document contributes
PassagesOf(doc) ==
    IF Len(strip(doc.page_content)) < 50 THEN <<>>
    ELSE TagOriginal(split_documents(doc))
         \o create_keyword_focused_chunks(doc)
         \o create_qa_chunks(doc)

\* C12: create_enhanced_chunks emits nothing for a document whose trimmed
\* text is shorter than 50 characters; for every other document it emits
\* that document's broad-context passages, then its keyword-focused
\* passages, then its rule-based passages, the documents in input order;
\* during the run the list only grows towards that result.
C12_ConcatenationInInputOrder ==
    LET result == Concat([k \in 1..Len(documents) |-> PassagesOf(documents[k])])
    IN  /\ IsPrefix(all_enhanced_chunks, result)
        /\ cpc = "returned" => all_enhanced_chunks = result

\* a finished run over two documents: the first too short, the second one
\* with passages of all three strategies
C12_Witness ==
    /\ cpc = "returned"
    /\ Len(documents) = 2
    /\ Len(strip(documents[1].page_content)) < 50
    /\ TypesOf(all_enhanced_chunks) =
          <<"original", "keyword_focused", "keyword_focused",
            "keyword_focused", "qa_style">>
    /\ \A k \in 1..Len(all_enhanced_chunks) :
          all_enhanced_chunks[k].metadata.source = documents[2].metadata.source

\* the text C13 gives the passage of the sentence at place k: the previous,
\* the matching and the next sentence, as far as they exist, each trimmed,
\* with one blank between them
WindowText(sentences, k) ==
    LET lo == IF k = 1 THEN 1 ELSE k - 1
        hi == IF k = Len(sentences) THEN k ELSE k + 1
    IN  Join(<<" ">>, [m \in 1..(hi - lo + 1) |-> strip(sentences[lo + m - 1])])

\* the (keyword, sentence) pairs for which C13 expects a passage
QualifiedPairs(sentences) ==
    {pair \in (1..Len(Keywords)) \X (1..Len(sentences)) :
        /\ Contains(lower(Keywords[pair[1]]), lower(sentences[pair[2]]))
        /\ Len(strip(sentences[pair[2]])) > 20
        /\ Len(WindowText(sentences, pair[2])) > 100}

\* the pairs of a set in keyword-list order and, within one keyword, in
\* sentence order
InListOrder(pairs) ==
    LET Before(a, b) == a[1] < b[1] \/ (a[1] = b[1] /\ a[2] < b[2])
    IN  [j \in 1..Cardinality(pairs) |->
            CHOOSE a \in pairs :
                Cardinality({b \in pairs : Before(b, a)}) = j - 1]

\* C13: the keyword-focused strategy emits a passage for a (keyword,
\* sentence) pair if and only if the sentence contains the keyword as a
\* case-insensitive substring, the sentence is longer than 20 characters
\* after trimming, and the window of the previous, the matching and the
\* next sentence, trimmed and joined with single blanks, is longer than 100
\* characters; the passage's text is that window, its tags are
\* keyword_focused, specific_query and the keyword; the passages come in
\* keyword-list order and, within a keyword, in sentence order.
C13_KeywordPassages ==
    cpc = "qa" =>
        LET sentences == split_sentences(CurrentDoc.page_content)
            order == InListOrder(QualifiedPairs(sentences))
            m == Len(order)
            n == Len(all_enhanced_chunks)
        IN  /\ n > m
            /\ ChunkType(all_enhanced_chunks[n - m]) = "original"
            /\ \A j \in 1..m :
                  LET chunk == all_enhanced_chunks[n - m + j]
                  IN  /\ chunk.page_content = WindowText(sentences, order[j][2])
                      /\ chunk.metadata.chunk_type = "keyword_focused"
                      /\ chunk.metadata.strategy = "specific_query"
                      /\ chunk.metadata.focus_keyword = Keywords[order[j][1]]
                      /\ chunk.metadata.source = CurrentDoc.metadata.source

\* the keyword strategy has just run over a document with "dog" in its
\* first and third sentence and "park" in its second: three passages, dog,
\* dog, park, the two dog passages with different windows, while another
\* sentence with "park" in it got no passage
C13_Witness ==
    /\ cpc = "qa"
    /\ LET n == Len(all_enhanced_chunks)
       IN  /\ n >= 4
           /\ TypesOf(SubSeq(all_enhanced_chunks, n - 3, n)) =
                 <<"original", "keyword_focused", "keyword_focused",
                   "keyword_focused">>
           /\ all_enhanced_chunks[n - 2].metadata.focus_keyword = <<"d", "o", "g">>
           /\ all_enhanced_chunks[n - 1].metadata.focus_keyword = <<"d", "o", "g">>
           /\ all_enhanced_chunks[n].metadata.focus_keyword = <<"p", "a", "r", "k">>
           /\ all_enhanced_chunks[n - 2].page_content
                 # all_enhanced_chunks[n - 1].page_content

\* the passages of a list that come from the document with the given source
FromSource(passages, source) ==
    SelectSeq(passages, LAMBDA c : c.metadata.source = source)

\* C14: for any document whose text contains the sentence "Dogs must be
\* leashed when in any county park.", the chunking output contains at least
\* one keyword-focused passage with focus keyword "dog" or "park" whose
\* text contains that sentence, and at least one rule-based passage whose
\* text contains that sentence.
C14_LeashSentenceIsCovered ==
    cpc = "returned" =>
        \A k \in 1..Len(documents) :
            Contains(LeashSentence, documents[k].page_content) =>
                LET mine == FromSource(all_enhanced_chunks,
                                       documents[k].metadata.source)
                IN  /\ \E j \in 1..Len(mine) :
                          /\ ChunkType(mine[j]) = "keyword_focused"
                          /\ mine[j].metadata.focus_keyword
                                \in {<<"d", "o", "g">>, <<"p", "a", "r", "k">>}
                          /\ Contains(LeashSentence, mine[j].page_content)
                    /\ \E j \in 1..Len(mine) :
                          /\ ChunkType(mine[j]) = "qa_style"
                          /\ Contains(LeashSentence, mine[j].page_content)

-----------------------------------------------------------------------------
(* Properties of load_documents *)

\* the entries of the listing that are source files, in enumeration order
SourceFiles ==
    SelectSeq(listing, LAMBDA f : EndsWith(f, Ext_docx) \/ EndsWith(f, Ext_pdf))

\* C20: load_documents returns the documents of every source file that
\* loads successfully, in file enumeration order, each with its metadata
\* enriched with the source filename, the file type, the character length
\* and the word count; a failure loading one file is caught, contributes
\* no document, and does not prevent the other files from being loaded.
C20_LoadedInEnumerationOrder ==
    /\ lpc \in {"for", "returned"}
    /\ lpc = "returned" =>
          /\ Len(load_log) = Len(SourceFiles)
          /\ \A k \in 1..Len(load_log) :
                basename(load_log[k].file_path) = SourceFiles[k]
          /\ LET got == [k \in 1..Len(load_log) |->
                            IF IsNone(load_log[k].loaded) THEN <<>>
                            ELSE Get(load_log[k].loaded)]
                 raw == Concat(got)
                 \* the file the n-th returned document comes from
                 FileOf(n) == CHOOSE k \in 1..Len(got) :
                     /\ Len(Concat(SubSeq(got, 1, k - 1))) < n
                     /\ n <= Len(Concat(SubSeq(got, 1, k)))
             IN  /\ Len(all_documents) = Len(raw)
                 /\ \A n \in 1..Len(raw) :
                       LET doc == all_documents[n]
                           name == SourceFiles[FileOf(n)]
                       IN  /\ doc.page_content = raw[n].page_content
                           /\ doc.metadata.page = raw[n].metadata.page
                           /\ doc.metadata.source = name
                           /\ \/ doc.metadata.file_type = <<"p", "d", "f">>
                                 /\ EndsWith(name, Ext_pdf)
                              \/ doc.metadata.file_type = <<"d", "o", "c", "x">>
                                 /\ EndsWith(name, Ext_docx)
                           /\ doc.metadata.doc_length = Len(raw[n].page_content)
                           /\ doc.metadata.word_count
                                 = word_count(raw[n].page_content)

\* a finished run over two source files: the first one failed to load, the
\* second one gave two elements, which are the result
C20_Witness ==
    /\ lpc = "returned"
    /\ Len(load_log) = 2
    /\ IsNone(load_log[1].loaded)
    /\ ~IsNone(load_log[2].loaded)
    /\ Len(all_documents) = 2
    /\ all_documents[1].metadata.word_count = 2
    /\ all_documents[1].metadata.doc_length = 6

-----------------------------------------------------------------------------
(* Properties of wait_for_content_load *)

WaitReturned == ~IsNone(wait_result)
\* the parsing and extraction of lines 154-177 has been gone into
ExtractionDone == wpc = "returned" /\ sleeps # <<>>

\* the waits are made in the order of content_indicators, none with more
\* polls than its timeout allows; True is returned at the first indicator
\* found, False after the last of the six timeouts (or after an error other
\* than a timeout); between the return and the extraction there is exactly
\* one sleep, of 5 seconds, whatever was returned
WaitIsOrderly ==
    /\ \A k \in 1..Len(wait_log) :
          /\ wait_log[k].place = k
          /\ wait_log[k].indicator = content_indicators[k]
          /\ wait_log[k].polls <= MaxPolls
          /\ k < Len(wait_log) => wait_log[k].outcome = "timeout"
    /\ polls <= MaxPolls
    /\ WaitReturned =>
          /\ Get(wait_result) =
                (wait_log # <<>> /\ Last(wait_log).outcome = "found")
          /\ (\A k \in 1..Len(wait_log) : wait_log[k].outcome = "timeout")
                => /\ Len(wait_log) = Len(content_indicators)
                   /\ Get(wait_result) = FALSE
    /\ sleeps \in {<<>>, <<5>>}
    /\ wpc = "waited" => WaitReturned /\ sleeps = <<>>
    /\ wpc = "extract" => WaitReturned /\ sleeps = <<5>>
    /\ (wpc = "returned" /\ WaitReturned) => sleeps = <<5>>

\* C19: wait_for_content_load always terminates: it checks the load signals
\* in a fixed priority order, each wait bounded by its own timeout, reports
\* success at the first signal found and false when every wait has timed
\* out; in both cases the page is not aborted: extraction proceeds after
\* one fixed additional delay.
C19_WaitTerminates ==
    /\ []WaitIsOrderly
    /\ (wpc = "wait") ~> WaitReturned
    /\ WaitReturned ~> ExtractionDone

\* a page whose six waits all timed out: the wait returned False, the page
\* was extracted from after the one sleep and gave its dict
C19_Witness ==
    /\ wpc = "returned"
    /\ Len(wait_log) = Len(content_indicators)
    /\ \A k \in 1..Len(wait_log) :
          wait_log[k].outcome = "timeout" /\ wait_log[k].polls = MaxPolls
    /\ wait_result = Some(FALSE)
    /\ sleeps = <<5>>
    /\ page_result = Some(Some("dict"))

-----------------------------------------------------------------------------
(* Properties of the extraction of a page, lines 154-177 *)

\* the text "Sec. 18-1"
Text_sec_18_1_label == <<"S", "e", "c", ".", " ", "1", "8", "-", "1">>

\* the first value of the nodeId parameter of the page's URL, "" when the
\* URL has no such parameter
FirstNodeIdOf(url) ==
    LET values == SelectSeq(url.query, LAMBDA pair : pair[1] = "nodeId")
    IN  IF values = <<>> THEN "" ELSE values[1][2]

\* the extraction of the fragment has returned
FragmentExtracted == page_source = Page_fragment /\ epc = "returned"

\* C16 as the specification states it: the content extracted from the
\* fragment includes the "Sec. 18-1" text, at least one subsection has a
\* title that starts with "Sec. 18-1", and the nodeId is the nodeId
\* parameter of the page URL.
C16_Original ==
    FragmentExtracted =>
        /\ Contains(Text_sec_18_1_label, Get(page_text))
        /\ ~IsNone(Get(page_sections))
        /\ \E k \in 1..Len(Get(Get(page_sections))) :
              IsPrefix(Text_sec_18_1_label, Get(Get(page_sections))[k].title)
        /\ page_node_id = Some(FirstNodeIdOf(page_url))

\* C16: given a page whose HTML is the fragment <div class="content"><p>Sec.
\* 18-1. Dogs must be leashed in public parks.</p><p>Violation is a
\* misdemeanor.</p></div>, the extracted content is empty (the container
\* has 76 characters, not more than 100, and no paragraph has more than
\* 50); there is exactly one subsection, its title the first paragraph,
\* which starts with "Sec. 18-1", its content the second paragraph; the
\* nodeId is the first nodeId parameter of the page URL, empty without one.
C16_FragmentExtraction ==
    FragmentExtracted =>
        /\ page_title = Some(Text_unknown_title)
        /\ page_text = Some(<<>>)
        /\ page_sections =
              Some(Some(<< [title |-> Text_sec_18_1,
                            content |-> Text_violation] >>))
        /\ IsPrefix(Text_sec_18_1_label, Text_sec_18_1)
        /\ page_node_id = Some(FirstNodeIdOf(page_url))

\* the fragment has been extracted from, for a URL with two nodeId
\* parameters: the record holds the first
C16_Witness ==
    /\ FragmentExtracted
    /\ Len(page_url.query) = 2
    /\ page_node_id = Some("SPAGEOR_CH42EN")
    /\ page_text = Some(<<>>)
    /\ Len(Get(Get(page_sections))) = 1

\* extract_page_content has returned
ContentExtracted == epc \in {"sections", "node_id", "returned"}

\* the places of all the elements a selector matches, in document order
SelectAll(soup, selector) ==
    SelectSeq(ElementPaths(soup), LAMBDA p : Matches(NodeAt(soup, p), selector))

\* the texts of the elements at the given places
TextsAt(soup, places, separator) ==
    [k \in 1..Len(places) |-> get_text(NodeAt(soup, places[k]), separator)]

\* a text block of the fallback: more than 50 characters, no blocklist term
IsKeptBlock(text) ==
    /\ Len(text) > 50
    /\ \A k \in 1..Len(skip_terms) : ~Contains(skip_terms[k], lower(text))

\* the texts of the page source that are not inside a script, style, nav,
\* header or footer element, in document order
TextsOutsideRemoved(source) ==
    LET Outside(p) ==
            /\ ~IsElement(NodeAt(source, p))
            /\ \A j \in 1..Len(p) :
                  NodeAt(source, SubSeq(p, 1, j)).tag \notin removed_tags
        places == SelectSeq(Paths(source), Outside)
    IN  [k \in 1..Len(places) |-> NodeAt(source, places[k]).text]

\* the tree that extract_page_content has left: the page source without
\* the removed elements
RemovedAreGone ==
    /\ \A k \in 1..Len(ElementPaths(page_soup)) :
          NodeAt(page_soup, ElementPaths(page_soup)[k]).tag \notin removed_tags
    /\ Strings(page_soup) = TextsOutsideRemoved(page_source)

\* C17 as the specification states it: after the removal, the content is
\* the text of the first of the containers, taken in the order .content,
\* .main-content, .ordinance-content, .section-content, [role=main], main,
\* whose text has more than 100 characters; without such a container it is
\* the texts of the paragraph and division elements that have more than 50
\* characters and no blocklist term, joined by blank lines; the empty string
\* when there is none. Texts are compared after the clean-up of whitespace.
C17_Original ==
    ContentExtracted =>
        LET containers ==
                Concat([k \in 1..Len(content_selectors) |->
                           SelectAll(page_soup, content_selectors[k])])
            substantial ==
                SelectSeq(TextsAt(page_soup, containers, <<"\n">>),
                          LAMBDA text : Len(text) > 100)
            blocks ==
                SelectSeq(TextsAt(page_soup, find_all(page_soup, {"p", "div"}),
                                  <<>>), IsKeptBlock)
        IN  /\ RemovedAreGone
            /\ substantial # <<>> =>
                  Get(page_text) = clean_content(<<substantial[1]>>)
            /\ (substantial = <<>> /\ blocks # <<>>) =>
                  Get(page_text) = clean_content(blocks)
            /\ (substantial = <<>> /\ blocks = <<>>) => Get(page_text) = <<>>

\* the selectors of the containers in their order
ContainerOrder ==
    <<Class("content"), Class("main-content"), Class("ordinance-content"),
      Class("section-content"), Role("main"), Tag("main")>>

\* C17: extract_page_content removes the script, style, nav, header and
\* footer elements from the tree; of each selector .content, .main-content,
\* .ordinance-content, .section-content, [role=main], main, in that order,
\* only the first matching element is a candidate, and the content is the
\* text of the first candidate whose text has more than 100 characters;
\* without one it is the texts, joined by blank lines, of the paragraph and
\* division elements that consist of a single text, have more than 50
\* characters and contain no blocklist term; in both cases with runs of
\* blank lines and of blanks collapsed and the ends trimmed; the empty
\* string when there is neither.
C17_ContentOfFirstCandidate ==
    ContentExtracted =>
        LET Candidate(k) == select_one(page_soup, ContainerOrder[k])
            TextOf(k) == get_text(NodeAt(page_soup, Get(Candidate(k))), <<"\n">>)
            winners == {k \in 1..Len(ContainerOrder) :
                           ~IsNone(Candidate(k)) /\ Len(TextOf(k)) > 100}
            single == SelectSeq(find_all(page_soup, {"p", "div"}),
                          LAMBDA p : ~IsNone(StringOf(NodeAt(page_soup, p))))
            blocks == SelectSeq(TextsAt(page_soup, single, <<>>), IsKeptBlock)
        IN  /\ RemovedAreGone
            /\ winners # {} =>
                  Get(page_text) = clean_content(<<TextOf(Least(winners))>>)
            /\ (winners = {} /\ blocks # <<>>) =>
                  Get(page_text) = clean_content(blocks)
            /\ (winners = {} /\ blocks = <<>>) => Get(page_text) = <<>>

\* the page with a navigation bar: the .content element inside the nav is
\* gone, the content is the text of the remaining .content element, its
\* blank lines and double blanks collapsed
C17_Witness ==
    /\ page_source = Page_chapter
    /\ ContentExtracted
    /\ page_text = Some(Text_sec_18_1 \o <<"\n">> \o Text_at_large
                            \o <<" ", "\n", "\n", " ">> \o Text_fine)

\* extract_page_title has returned
TitleExtracted == epc # "idle" /\ epc # "title"

\* the selectors of the title in their order
TitleOrder ==
    <<Tag("h1"), Class("page-title"), Class("section-title"),
      Class("ordinance-title"), Tag("title")>>

\* C18: extract_page_title tries the selectors h1, .page-title,
\* .section-title, .ordinance-title, title in that order and returns the
\* whitespace-normalised text of the first candidate whose normalised text
\* has more than 10 characters; when no candidate qualifies, as on the page
\* with no heading, no matching class and an empty title element, it
\* returns "Unknown Title". A value is returned for every page: nothing is
\* raised.
C18_TitleOfFirstCandidate ==
    TitleExtracted =>
        LET Candidate(k) == select_one(page_source, TitleOrder[k])
            TextOf(k) ==
                sub_whitespace_runs(
                    get_text(NodeAt(page_source, Get(Candidate(k))), <<>>))
            qualified == {k \in 1..Len(TitleOrder) :
                             ~IsNone(Candidate(k)) /\ Len(TextOf(k)) > 10}
        IN  /\ ~IsNone(page_title)
            /\ qualified # {} => Get(page_title) = TextOf(Least(qualified))
            /\ qualified = {} => Get(page_title) = Text_unknown_title
            /\ page_source = Page_bare => Get(page_title) = Text_unknown_title

\* the page whose h1 and .page-title have 10 characters: the title is the
\* text of the .section-title element
C18_Witness ==
    /\ page_source = Page_second
    /\ TitleExtracted
    /\ Len(Text_chapter_42) = 10
    /\ page_title = Some(Text_title_1)

\* extract_sections has returned
SectionsExtracted == epc \in {"node_id", "returned"}

\* the sections that extract_sections returned, none for None
SectionsFound ==
    IF IsNone(Get(page_sections)) THEN <<>> ELSE Get(Get(page_sections))

\* the text of each node that follows the node at the place among the
\* children of its parent
FollowingTexts(soup, path) ==
    LET parent == NodeAt(soup, SubSeq(path, 1, Len(path) - 1))
    IN  [k \in 1..(Len(parent.kids) - Last(path)) |->
            get_text(parent.kids[Last(path) + k], <<>>)]

\* C23: for each heading, paragraph or division element whose text matches
\* a section-marker pattern the body is collected from the siblings that
\* follow it, up to the first sibling that itself matches one of the
\* section-marker patterns, so that the body holds no text of a following
\* section header; a subsection is emitted only with a non-empty body, and
\* its title is the text of such an element.
C23_BodyStopsAtNextHeader ==
    SectionsExtracted =>
        \A k \in 1..Len(SectionsFound) :
            /\ SectionsFound[k].content # <<>>
            /\ \E h \in 1..Len(ElementPaths(page_soup)) :
                  LET path == ElementPaths(page_soup)[h]
                      following == FollowingTexts(page_soup, path)
                  IN  /\ NodeAt(page_soup, path).tag
                            \in {"h1", "h2", "h3", "h4", "p", "div"}
                      /\ get_text(NodeAt(page_soup, path), <<>>)
                            = SectionsFound[k].title
                      /\ LooksLikeHeader(SectionsFound[k].title)
                      /\ \A j \in 1..Len(following) :
                            LooksLikeHeader(following[j]) =>
                                ~Contains(following[j], SectionsFound[k].content)

-----------------------------------------------------------------------------
(* Properties of discover_additional_sections *)

\* what a call returned is one URL per suffix, in list order, each
\* base_url?nodeId=<identifier><suffix>
OneCandidatePerSuffix(call) ==
    /\ Len(call.discovered_urls) = 15
    /\ Len(common_suffixes) = 15
    /\ \A k \in 1..Len(common_suffixes) :
          /\ call.discovered_urls[k].path = base_url
          /\ call.discovered_urls[k].query =
                << <<"nodeId", call.base_node_id \o common_suffixes[k]>> >>

\* C21: discover_additional_sections is a pure function of its input: for
\* any anchor identifier it returns exactly one candidate URL per suffix of
\* the fixed suffix list, in list order, each of the form
\* base_url?nodeId=<identifier><suffix>; two calls with the same identifier
\* return the same ordered sequence, and a call modifies no scraper state.
C21_DiscoverIsPure ==
    /\ [](\A k \in 1..Len(discover_log) :
            /\ OneCandidatePerSuffix(discover_log[k])
            /\ \A m \in 1..Len(discover_log) :
                  discover_log[m].base_node_id = discover_log[k].base_node_id
                      => discover_log[m].discovered_urls
                            = discover_log[k].discovered_urls)
    /\ [][scraper_vars' = scraper_vars]_vars

\* two calls for SPAGEOR_CH18AN have returned the same fifteen candidates,
\* the first of them for SPAGEOR_CH18AN_S1, the last for SPAGEOR_CH18AN_VI
C21_Witness ==
    /\ Len(discover_log) = 2
    /\ discover_log[1].base_node_id = "SPAGEOR_CH18AN"
    /\ discover_log[2].base_node_id = "SPAGEOR_CH18AN"
    /\ discover_log[1].discovered_urls = discover_log[2].discovered_urls
    /\ discover_log[2].discovered_urls[1] = MakeUrl("SPAGEOR_CH18AN_S1")
    /\ discover_log[2].discovered_urls[15] = MakeUrl("SPAGEOR_CH18AN_VI")
    /\ ordinances = <<>> /\ failed_urls = <<>> /\ driver = "None"

-----------------------------------------------------------------------------
(* Properties of the records of repeated scrape runs *)

\* the places of a label at which the word, a blank and a digit group stand
NumberedAt(word, label) ==
    {k \in 1..(Len(label) - 2) :
        /\ label[k] = word
        /\ label[k + 1] = " "
        /\ label[k + 2] \in DigitTokens}

\* the chapter number the catalog's one label stands for
NumberOfCatalog ==
    CASE known_chapters = <<default_known_chapters[1]>> -> Some("18")
      [] known_chapters = <<default_known_chapters[4]>> -> Some("T1")
      [] known_chapters = <<default_known_chapters[7]>> -> None
      [] known_chapters = <<titled_chapter>> -> Some("18")

\* C22: the chapter_number of every record is derived from the label of
\* its target: the digits n as a string when the label contains
\* "Chapter <n>", otherwise "T<n>" when it contains "TITLE <n>", otherwise
\* null; a discovered candidate, labelled "<chapter label> - Related", gets
\* the same chapter_number as its parent chapter.
C22_ChapterNumberFromLabel ==
    \A k \in 1..Len(ordinances) :
        LET label == ordinances[k].chapter
            number == ordinances[k].chapter_number
            chapters == NumberedAt("Chapter", label)
            titles == NumberedAt("TITLE", label)
        IN  /\ chapters # {} => number = Some(label[Least(chapters) + 2])
            /\ (chapters = {} /\ titles # {})
                  => number = Some("T" \o label[Least(titles) + 2])
            /\ (chapters = {} /\ titles = {}) => number = None
            /\ number = NumberOfCatalog
            /\ \E t \in 1..Len(all_urls_to_scrape) :
                  /\ all_urls_to_scrape[t].chapter_name = label
                  /\ all_urls_to_scrape[t].url = ordinances[k].url
            /\ \A m \in 1..Len(ordinances) :
                  ordinances[m].chapter = label \o <<" ", "-", " ", "Related">>
                      => ordinances[m].chapter_number = number

\* the records of the "TITLE 1" chapter and of its discovered candidate:
\* both have the chapter number "T1"
C22_Witness ==
    /\ known_chapters = <<default_known_chapters[4]>>
    /\ Len(ordinances) = 2
    /\ ordinances[1].chapter = default_known_chapters[4][2]
    /\ ordinances[2].chapter =
          default_known_chapters[4][2] \o <<" ", "-", " ", "Related">>
    /\ ordinances[1].chapter_number = Some("T1")
    /\ ordinances[2].chapter_number = Some("T1")

\* C28: the record list and the failure list are append-only and never
\* reset: an appended record is never modified or removed, and
\* scrape_known_chapters starts from the lists as they are, so that a
\* second run on the same scraper returns the records of both runs and
\* the failure list holds the failures of both; at every point the number
\* of targets processed since construction is the size of the record list
\* plus the size of the failure list.
C28_ListsOnlyGrow ==
    /\ [][/\ IsPrefix(ordinances, ordinances')
          /\ IsPrefix(failed_urls, failed_urls')]_vars
    /\ [](pc # "branch" =>
            /\ Len(ordinances) + Len(failed_urls) = Len(Gots)
            /\ failed_urls = Urls(FailedGots)
            /\ Urls(ordinances) = Urls(GoodGots))
    /\ [](\A k \in 1..Len(run_results) : IsPrefix(run_results[k], ordinances))
    /\ [](ScrapeReturned => Get(returned) = ordinances)

\* the second run on a scraper has returned: each run recorded one target
\* and failed on one; the value returned holds the record of the first run
\* and then that of the second, the failure list the failures of both
C28_Witness ==
    /\ ScrapeReturned
    /\ Len(run_results) = 1
    /\ Len(run_results[1]) = 1
    /\ Len(Gots) = 4
    /\ Gots[1].ok /\ ~Gots[2].ok /\ ~Gots[3].ok /\ Gots[4].ok
    /\ Len(Get(returned)) = 2
    /\ Get(returned)[1] = run_results[1][1]
    /\ Get(returned)[2].url = Gots[4].url
    /\ failed_urls = <<Gots[2].url, Gots[3].url>>

-----------------------------------------------------------------------------
(* Properties of upload_with_progress *)

\* the batch uploads made so far, in order; those that raised; those that
\* did not
Uploads == SelectSeq(upload_log, LAMBDA e : e.ev = "upload")
FailedUploads == SelectSeq(Uploads, LAMBDA e : ~e.ok)
GoodUploads == SelectSeq(Uploads, LAMBDA e : e.ok)
\* the chunks of the given uploads, in order
ChunksOf(uploads) == Concat([k \in 1..Len(uploads) |-> uploads[k].batch])

\* upload_with_progress has returned to main
UploadReturned == ~IsNone(uploaded_count)

\* C24: a failure while uploading a batch never propagates out of
\* upload_with_progress: the function returns the number of chunks of the
\* batches that were uploaded, which is less than the number of chunks
\* when a batch failed, and main goes on to its end; when the first batch
\* fails the returned count is 0 and no chunk is in the table.
C24_UploadFailureIsContained ==
    /\ [](upc \in {"delete", "check", "first_batch", "loop", "sleep",
                   "return", "report", "test_retrieval", "done"})
    /\ [](UploadReturned =>
            /\ uploaded_count = Some(Len(ChunksOf(GoodUploads)))
            /\ FailedUploads # <<>> =>
                  Get(uploaded_count) < Len(upload_chunks)
            /\ (Uploads # <<>> /\ ~Uploads[1].ok) =>
                  /\ uploaded_count = Some(0)
                  /\ \A k \in 1..Len(table) : table[k] = 0)
    /\ <>(upc = "done")

\* main has ended after an upload whose third batch failed: two batches of
\* two chunks are in the table and 4 of 5 chunks are reported
C24_Witness ==
    /\ upc = "done"
    /\ Len(upload_chunks) = 5 /\ batch_size = 2
    /\ Len(Uploads) = 3
    /\ Uploads[1].ok /\ Uploads[2].ok /\ ~Uploads[3].ok
    /\ uploaded_count = Some(4)
    /\ table = <<1, 2, 3, 4>>

\* the k-th batch of the chunk list: batch_size chunks, the last batch
\* what is left
BatchNumber(k) ==
    Slice(upload_chunks, (k - 1) * batch_size, k * batch_size)

\* C25: upload_with_progress sends the chunks in batches of batch_size
\* chunks, the last batch possibly smaller, and a pause lies between every
\* two consecutive batch uploads: no batch upload starts without a pause
\* since the previous batch upload.
C25_PauseBetweenBatches ==
    /\ \A k \in 1..Len(Uploads) : Uploads[k].batch = BatchNumber(k)
    /\ \A a, b \in 1..Len(upload_log) :
          (a < b /\ upload_log[a].ev = "upload" /\ upload_log[b].ev = "upload")
              => \E c \in (a + 1)..(b - 1) : upload_log[c].ev = "sleep"

\* the batches are those of the chunk list and, from the second batch on,
\* a pause follows every upload that did not fail
PauseAfterLaterBatches ==
    /\ \A k \in 1..Len(Uploads) : Uploads[k].batch = BatchNumber(k)
    /\ \A a \in 1..Len(upload_log) :
          (upload_log[a].ev = "upload" /\ upload_log[a].ok
              /\ upload_log[a].batch # BatchNumber(1)
              /\ upc \notin {"sleep"})
                  => /\ a < Len(upload_log)
                     /\ upload_log[a + 1].ev = "sleep"

\* C26: the uploaded batches always form a prefix of the ordered batch
\* sequence: once a batch upload has failed no later batch is attempted;
\* each chunk is uploaded at most once and in input order; the returned
\* count is the total size of the uploaded prefix, and it is the number of
\* chunks if and only if no batch failed.
C26_UploadedPrefix ==
    /\ \A k \in 1..Len(GoodUploads) : GoodUploads[k].batch = BatchNumber(k)
    /\ \A k \in 1..Len(Uploads) : ~Uploads[k].ok => k = Len(Uploads)
    /\ ChunksOf(GoodUploads)
          = SubSeq(upload_chunks, 1, Len(ChunksOf(GoodUploads)))
    /\ SelectSeq(table, LAMBDA row : row # 0) = ChunksOf(GoodUploads)
    /\ UploadReturned =>
          /\ Get(uploaded_count) = Len(ChunksOf(GoodUploads))
          /\ Get(uploaded_count) = Len(upload_chunks)
                <=> FailedUploads = <<>>

\* an upload of five chunks in batches of two whose second batch failed:
\* the first batch is in the table, the third was not attempted, 2 is
\* returned
C26_Witness ==
    /\ UploadReturned
    /\ Len(upload_chunks) = 5 /\ batch_size = 2
    /\ Len(Uploads) = 2
    /\ Uploads[1].ok /\ ~Uploads[2].ok
    /\ Uploads[2].batch = <<3, 4>>
    /\ SelectSeq(table, LAMBDA row : row # 0) = <<1, 2>>
    /\ uploaded_count = Some(2)

\* the deletion has been issued, first of all calls, and only once
DeletionFirst ==
    /\ upload_log # <<>>
    /\ upload_log[1].ev = "delete"
    /\ \A k \in 2..Len(upload_log) : upload_log[k].ev # "delete"

\* C27: upload_with_progress issues the deletion of all rows of the
\* documents table before it checks whether there is any chunk and before
\* the first batch upload, and never restores them: a call with an empty
\* chunk list, or a call whose first batch fails, leaves the table cleared
\* with 0 chunks uploaded; a failure of the deletion is caught and does not
\* keep the upload from proceeding.
C27_DeletionComesFirst ==
    /\ upc # "delete" => DeletionFirst
    /\ (upc # "delete" /\ upload_log[1].ok) =>
          /\ \A k \in 1..Len(table) : table[k] # 0
          /\ (UploadReturned /\ upload_chunks = <<>>) =>
                table = <<>> /\ uploaded_count = Some(0)
          /\ (UploadReturned /\ Uploads # <<>> /\ ~Uploads[1].ok) =>
                table = <<>> /\ uploaded_count = Some(0)
    /\ (upc # "delete" /\ ~upload_log[1].ok) =>
          /\ upc \in {"check", "first_batch", "loop", "sleep", "return",
                      "report", "test_retrieval", "done"}
          /\ (UploadReturned /\ FailedUploads = <<>>) =>
                /\ uploaded_count = Some(Len(upload_chunks))
                /\ SelectSeq(table, LAMBDA row : row # 0) = upload_chunks

\* a call with an empty chunk list has returned 0: the row that was in the
\* table is gone and nothing was uploaded
C27_Witness ==
    /\ upc = "done"
    /\ upload_chunks = <<>>
    /\ upload_log = <<[ev |-> "delete", ok |-> TRUE, removed |-> <<0>>]>>
    /\ table = <<>>
    /\ uploaded_count = Some(0)

-----------------------------------------------------------------------------
(* Properties of create_qa_chunks: the text of a rule-based passage *)

\* text is a run of consecutive characters of content that lies between
\* 150 characters before the start of the match and 150 characters after
\* its end
LiesInWindow(text, content, match) ==
    \E a \in Max(1, match.first - 150)..Min(Len(content), match.last + 150) :
        /\ a + Len(text) - 1 <= Min(Len(content), match.last + 150)
        /\ text = SubSeq(content, a, a + Len(text) - 1)

\* the rule-based passages of the output
RulePassages ==
    SelectSeq(all_enhanced_chunks, LAMBDA c : ChunkType(c) = "qa_style")

\* C29: the text of every rule-based passage is a contiguous substring of
\* the source document's text, lying within the window that starts 150
\* characters before the start of the pattern match and ends 150 characters
\* after its end: the trimming only removes characters from the two ends
\* of the window and never inserts or moves characters.
C29_RulePassageIsSubstring ==
    \A j \in 1..Len(RulePassages) :
        \E k \in 1..Len(documents), n \in 1..Len(rule_patterns) :
            /\ RulePassages[j].metadata.source = documents[k].metadata.source
            /\ RulePassages[j].metadata.rule_pattern = rule_pattern_sources[n]
            /\ LET content == documents[k].page_content
                   matches == finditer(rule_patterns[n], content, 1)
               IN  \E m \in 1..Len(matches) :
                       LiesInWindow(RulePassages[j].page_content, content,
                                    matches[m])

=============================================================================
